---- MODULE Spec2Model ----
(***************************************************************************)
(* A model of the text-analysis layer and of the chat/editor flow of the   *)
(* Mermaid diagram editor: the structural validator                        *)
(* (validateMermaidSyntax), the structure analyzer (analyzeDiagram), the   *)
(* intent classifier (analyzeIntent), the chat flow that applies a         *)
(* model-proposed diagram to the editor (processChat, sendMessage), the    *)
(* chat store and the diagram store with its storage, and debounceAsync.   *)
(*                                                                         *)
(* A string is a sequence of characters (one-character strings); a diagram *)
(* text is the sequence of its lines, i.e. the value of                    *)
(* diagram.split('\n'), so the empty string is the text << <<>> >>.        *)
(***************************************************************************)
EXTENDS Integers, Sequences, FiniteSets, TLC

VARIABLES
    diagram,        \* the text handed to validateMermaidSyntax / analyzeDiagram
    vres,           \* the ValidationResult returned for diagram, or NoResult
    apc,            \* position of analyzeDiagram: "idle", "loop", "done"
    atype,          \* analyzeDiagram: the extracted type
    alines,         \* analyzeDiagram: the trimmed non-empty lines
    ai,             \* analyzeDiagram: index (1-based) of the next line of the loop
    anodes,         \* analyze*: the nodes array
    aconns,         \* analyze*: the connections array
    akeys,          \* analyze*: the keys of nodeMap / participants / classes / states
    adir,           \* analyzeFlowchart: direction
    ares,           \* the DiagramAnalysis returned, or NoResult
    prompt,         \* the user text handed to analyzeIntent
    ires,           \* the ProcessedPrompt returned, or NoResult
    currentDiagram, \* diagram store: currentDiagram (NoDiagram or its content)
    editorState,    \* diagram store: editorState
    messages,       \* chat store: messages
    isLoading,      \* chat store: isLoading
    error,          \* chat store: error
    currentInput,   \* chat store: currentInput
    apiKey,         \* settings store: apiKey
    inflight,       \* sendMessage invocations awaiting chatService.processChat
    lastChat,       \* what the last completed processChat computed and sendMessage applied
    lastWrite,      \* the last updateDiagramContent call made on the open diagram, or NoResult
    lastSend,       \* the last sendMessage / retryLastFailedMessage call, or NoResult
    timeout,        \* debounceAsync: timeout (0 for null, else the call whose timer it is)
    latestResolve,  \* debounceAsync: latestResolve (0 for null, else the call it belongs to)
    latestReject,   \* debounceAsync: latestReject (0 for null, else the call it belongs to)
    calls,          \* debounceAsync: the calls of debouncedFunction made so far
    currentId,      \* diagram store: currentDiagram.id (0 when currentDiagram is null)
    validationResult, \* diagram store: validationResult
    savedDiagrams,  \* diagram store: savedDiagrams
    storage,        \* localStorage: the array under STORAGE_KEYS.DIAGRAMS
    lastDelete      \* the last deleteDiagramFromStorage call and its result, or NoResult

vvars == <<diagram, vres>>
avars == <<apc, atype, alines, ai, anodes, aconns, akeys, adir, ares>>
ivars == <<prompt, ires>>
cvars == <<currentDiagram, editorState, messages, isLoading, error, currentInput, apiKey,
          inflight, lastChat, lastWrite, lastSend>>
dvars == <<timeout, latestResolve, latestReject, calls>>
svars == <<currentId, validationResult, savedDiagrams, storage, lastDelete>>
vars == <<diagram, vres, apc, atype, alines, ai, anodes, aconns, akeys, adir, ares,
          prompt, ires, currentDiagram, editorState, messages, isLoading, error,
          currentInput, apiKey, inflight, lastChat, lastWrite, lastSend,
          timeout, latestResolve, latestReject, calls,
          currentId, validationResult, savedDiagrams, storage, lastDelete>>

NoResult == [none |-> TRUE]

(***************************************************************************)
(* Bounds of the model.                                                    *)
(***************************************************************************)
MaxLines == 3
MaxMessages == 3
MaxRepeat == 14
MaxCalls == 3
MaxDiagrams == 2
MaxSaved == 1

(***************************************************************************)
(* Characters and string primitives (String.prototype.trim, startsWith,    *)
(* includes, toLowerCase, and the pieces of the regular expressions).      *)
(***************************************************************************)
Whitespace == {" ", "\t"}

UpperSeq == <<"A","B","C","D","E","F","G","H","I","J","K","L","M","N","O","P","Q","R","S","T","U","V","W","X","Y","Z">>
LowerSeq == <<"a","b","c","d","e","f","g","h","i","j","k","l","m","n","o","p","q","r","s","t","u","v","w","x","y","z">>
DigitSeq == <<"0","1","2","3","4","5","6","7","8","9">>

Range(s) == {s[i] : i \in 1..Len(s)}

\* the character class [A-Za-z0-9_-]
IdChars == Range(UpperSeq) \cup Range(LowerSeq) \cup Range(DigitSeq) \cup {"_", "-"}

SetMin(S) == CHOOSE x \in S : \A y \in S : x <= y
SetMax(S) == CHOOSE x \in S : \A y \in S : x >= y

IsBlank(s) == \A i \in 1..Len(s) : s[i] \in Whitespace

\* String.prototype.trim on one line
Trim(s) ==
    IF IsBlank(s) THEN << >>
    ELSE LET nonws == {i \in 1..Len(s) : s[i] \notin Whitespace}
         IN  SubSeq(s, SetMin(nonws), SetMax(nonws))

\* s has pre at (1-based) position p
StartsWithAt(s, p, pre) ==
    /\ p >= 1
    /\ p + Len(pre) - 1 <= Len(s)
    /\ \A k \in 1..Len(pre) : s[p + k - 1] = pre[k]

StartsWith(s, pre) == StartsWithAt(s, 1, pre)

Includes(s, sub) == \E p \in 1..(Len(s) + 1) : StartsWithAt(s, p, sub)

LowerChar(c) ==
    IF \E i \in 1..Len(UpperSeq) : UpperSeq[i] = c
    THEN LowerSeq[CHOOSE i \in 1..Len(UpperSeq) : UpperSeq[i] = c]
    ELSE c

ToLowerCase(s) == [i \in 1..Len(s) |-> LowerChar(s[i])]

\* the number of occurrences of character c in s: (s.match(/\c/g) || []).length
CountChar(s, c) == Cardinality({i \in 1..Len(s) : s[i] = c})

\* \s* at position p: the position after the whitespace run
SkipWs(s, p) ==
    IF \E q \in p..Len(s) : s[q] \notin Whitespace
    THEN SetMin({q \in p..Len(s) : s[q] \notin Whitespace})
    ELSE IF p > Len(s) THEN p ELSE Len(s) + 1

\* [A-Za-z0-9_-]+ at position p: the length of the longest run (0 if none)
IdRun(s, p) ==
    IF \E q \in p..Len(s) : s[q] \notin IdChars
    THEN SetMin({q \in p..Len(s) : s[q] \notin IdChars}) - p
    ELSE IF p > Len(s) THEN 0 ELSE Len(s) - p + 1

\* the text is blank: !diagram.trim()
IsBlankText(text) == \A i \in 1..Len(text) : IsBlank(text[i])

(***************************************************************************)
(* Regular expressions shared by the validator and the analyzer.  A match  *)
(* is a record with a field ok; the alternatives a regular expression      *)
(* tries are laid out as a sequence of such records, in the order tried.   *)
(***************************************************************************)
NoMatch == [ok |-> FALSE, id |-> << >>, shape |-> << >>]

\* the first / the last entry of c that matched, none if there is no such entry
FirstOk(c, none) ==
    IF \E j \in DOMAIN c : c[j].ok THEN c[SetMin({j \in DOMAIN c : c[j].ok})] ELSE none

LastOk(c, none) ==
    IF \E j \in DOMAIN c : c[j].ok THEN c[SetMax({j \in DOMAIN c : c[j].ok})] ELSE none

\* the alternatives of the shape group, in the order the regex tries them:
\*   \[.*?\] | \(.*?\) | \{.*?\} | \(\(.*?\)\) | >.*?]
ShapeAlts == << <<<<"[">>, <<"]">>>>, <<<<"(">>, <<")">>>>, <<<<"{">>, <<"}">>>>,
                <<<<"(","(">>, <<")",")">>>>, <<<<">">>, <<"]">>>> >>

\* alternative j matches at position q: opener, lazy .*?, first closer
ShapeAltAt(s, q, j) ==
    /\ StartsWithAt(s, q, ShapeAlts[j][1])
    /\ \E r \in (q + Len(ShapeAlts[j][1]))..Len(s) : StartsWithAt(s, r, ShapeAlts[j][2])

ShapeAltEnd(s, q, j) ==
    SetMin({r \in (q + Len(ShapeAlts[j][1]))..Len(s) : StartsWithAt(s, r, ShapeAlts[j][2])})
        + Len(ShapeAlts[j][2]) - 1

\* the shape group at position q after the first group id
ShapeAt(s, id, q) ==
    FirstOk([j \in 1..Len(ShapeAlts) |->
                IF ShapeAltAt(s, q, j)
                THEN [ok |-> TRUE, id |-> id, shape |-> SubSeq(s, q, ShapeAltEnd(s, q, j))]
                ELSE NoMatch],
            NoMatch)

\* the first group starts at p: it is greedy and gives characters back until
\* the shape group matches
NodeFrom(s, p) ==
    LastOk([k \in 1..IdRun(s, p) |-> ShapeAt(s, SubSeq(s, p, p + k - 1), p + k)], NoMatch)

\* /^\s*([A-Za-z0-9_-]+)(\[.*?\]|\(.*?\)|\{.*?\}|\(\(.*?\)\)|>.*?])/
NodeMatch(s) == NodeFrom(s, SkipWs(s, 1))

NoRel == [ok |-> FALSE, from |-> << >>, arrow |-> << >>, to |-> << >>, rest |-> << >>]

\* \s*(ID+) at position t after the arrow and, when needColon, \s*:\s*(.+);
\* rest is what follows the third group
RelTail(s, from, arrow, t, needColon) ==
    IF /\ IdRun(s, t) >= 1
       /\ needColon =>
             /\ SkipWs(s, t + IdRun(s, t)) < Len(s)
             /\ s[SkipWs(s, t + IdRun(s, t))] = ":"
    THEN [ok |-> TRUE, from |-> from, arrow |-> arrow,
          to |-> SubSeq(s, t, t + IdRun(s, t) - 1),
          rest |-> SubSeq(s, t + IdRun(s, t), Len(s))]
    ELSE NoRel

\* the arrow at position a after the first group from
RelArrow(s, from, arrow, a, needColon) ==
    IF StartsWithAt(s, a, arrow)
    THEN RelTail(s, from, arrow, SkipWs(s, a + Len(arrow)), needColon)
    ELSE NoRel

\* the first group starts at p: it is greedy and gives characters back until
\* the rest matches; the arrows are tried in the order written
RelFrom(s, p, arrows, needColon) ==
    LastOk([k \in 1..IdRun(s, p) |->
               FirstOk([j \in 1..Len(arrows) |->
                           RelArrow(s, SubSeq(s, p, p + k - 1), arrows[j], SkipWs(s, p + k),
                                    needColon)],
                       NoRel)],
           NoRel)

\* /^\s*(ID+)\s*(a1|a2|...)\s*(ID+)/ followed, when needColon, by \s*:\s*(.+)
RelMatch(s, arrows, needColon) == RelFrom(s, SkipWs(s, 1), arrows, needColon)

\* /^\s*(TD|TB|BT|RL|LR)$/
Directions == {<<"T","D">>, <<"T","B">>, <<"B","T">>, <<"R","L">>, <<"L","R">>}
DirectionMatch(s) == SubSeq(s, SkipWs(s, 1), Len(s)) \in Directions

\* line.startsWith('%')
IsComment(s) == StartsWith(s, <<"%">>)

\* the set S of naturals as an ascending sequence
RECURSIVE AscSeq(_)
AscSeq(S) == IF S = {} THEN << >>
             ELSE <<SetMin(S)>> \o AscSeq(S \ {SetMin(S)})

(***************************************************************************)
(* The structural validator (mermaidValidator).  A finding is a record     *)
(* [line, message, type]; line 0 stands for a finding without a line.      *)
(* The loop of a validate* function is modelled by what each line adds:    *)
(* the branch the line takes (kind), the names it adds to the set of       *)
(* nodes / participants / classes / states (ids) and the connections it    *)
(* adds (conns).                                                           *)
(***************************************************************************)
Finding(l, m, t) == [line |-> l, message |-> m, type |-> t]

validTypes ==
    << <<"f","l","o","w","c","h","a","r","t">>, <<"g","r","a","p","h">>, <<"s","e","q","u","e","n","c","e","D","i","a","g","r","a","m">>, <<"c","l","a","s","s","D","i","a","g","r","a","m">>, <<"s","t","a","t","e","D","i","a","g","r","a","m">>,
       <<"e","n","t","i","t","y","R","e","l","a","t","i","o","n","s","h","i","p","D","i","a","g","r","a","m">>, <<"g","a","n","t","t">>, <<"p","i","e">>, <<"j","o","u","r","n","e","y">>, <<"g","i","t","g","r","a","p","h">>,
       <<"m","i","n","d","m","a","p">>, <<"t","i","m","e","l","i","n","e">>, <<"C","4","C","o","n","t","e","x","t">>, <<"C","4","C","o","n","t","a","i","n","e","r">>, <<"C","4","C","o","m","p","o","n","e","n","t">>,
       <<"C","4","D","y","n","a","m","i","c">> >>

Scanned(kind, ids, conns) == [kind |-> kind, ids |-> ids, conns |-> conns]

\* if (!line || line.startsWith('%')) continue
Skipped(line) == line = << >> \/ IsComment(line)

\* the names / the connections the lines of a scan have added
IdsOf(scan) == UNION {scan[i].ids : i \in DOMAIN scan}
ConnsOf(scan) == UNION {scan[i].conns : i \in DOMAIN scan}
LinesOfKind(scan, kind) == {i \in DOMAIN scan : scan[i].kind = kind}

\* the three arrays a validate* function has pushed to
Found(e, w, s) == [errors |-> e, warnings |-> w, suggestions |-> s]

FlowArrowsV == << <<"-","-",">">>, <<"-","-","-">>, <<"-",".","-",">","|","-",".","-","|">> >>

\* one iteration of the loop of validateFlowchart
FlowBranch(skip, nodeMatch, connectionMatch, isDirection) ==
    IF skip THEN Scanned("skip", {}, {})
    ELSE IF nodeMatch.ok THEN Scanned("node", {nodeMatch.id}, {})
    ELSE IF connectionMatch.ok
    THEN Scanned("connection", {connectionMatch.from, connectionMatch.to},
                 {connectionMatch.from \o connectionMatch.arrow \o connectionMatch.to})
    ELSE IF isDirection THEN Scanned("direction", {}, {})
    ELSE Scanned("other", {}, {})

\* the loop of validateFlowchart: what each line adds (the loop starts at the
\* second line)
FlowScan(lines) ==
    [i \in 1..Len(lines) |->
        IF i = 1 THEN Scanned("skip", {}, {})
        ELSE FlowBranch(Skipped(Trim(lines[i])), NodeMatch(Trim(lines[i])),
                        RelMatch(Trim(lines[i]), FlowArrowsV, FALSE),
                        DirectionMatch(Trim(lines[i])))]

\* a variant that reports a line of no known pattern as an error
FlowFoundStrict(scan) ==
    LET other == LinesOfKind(scan, "other")
        nodes == Cardinality(IdsOf(scan))
    IN  Found(
          [k \in 1..Cardinality(other) |->
              Finding(AscSeq(other)[k], "Potentially invalid syntax", "syntax")]
            \o (IF nodes = 0 THEN <<Finding(0, "No nodes found in flowchart", "semantic")>>
                ELSE << >>),
          IF nodes = 1
          THEN <<Finding(0, "Flowchart has only one node - consider adding connections",
                         "style")>>
          ELSE << >>,
          << >>)

\* what validateFlowchart pushes once its loop has run
FlowFound(scan) ==
    LET other == LinesOfKind(scan, "other")
        nodes == Cardinality(IdsOf(scan))
        connections == Cardinality(ConnsOf(scan))
    IN  Found(
          IF nodes = 0 THEN <<Finding(0, "No nodes found in flowchart", "semantic")>> ELSE << >>,
          [k \in 1..Cardinality(other) |->
              Finding(AscSeq(other)[k], "Potentially invalid syntax", "style")]
            \o (IF nodes = 1
                THEN <<Finding(0, "Flowchart has only one node - consider adding connections",
                               "style")>>
                ELSE << >>),
          IF connections = 0 /\ nodes > 1
          THEN <<"Add connections between nodes using arrows (-->)">> ELSE << >>)

validateFlowchart(lines) == FlowFound(FlowScan(lines))

\* (->>?|-->>?): each alternative tries its longer form first
SeqArrows == << <<"-",">",">">>, <<"-",">">>, <<"-","-",">",">">>, <<"-","-",">">> >>

\* line.replace('participant ', '').trim() for a line that starts with it
ParticipantName(s) == Trim(SubSeq(s, Len(<<"p","a","r","t","i","c","i","p","a","n","t"," ">>) + 1, Len(s)))

\* one iteration of the loop of validateSequenceDiagram
SeqBranch(line, skip, messageMatch) ==
    IF skip THEN Scanned("skip", {}, {})
    ELSE IF StartsWith(line, <<"p","a","r","t","i","c","i","p","a","n","t"," ">>)
    THEN Scanned("participant", {ParticipantName(line)}, {})
    ELSE IF messageMatch.ok
    THEN Scanned("message", {messageMatch.from, messageMatch.to}, {})
    ELSE Scanned("other", {}, {})

SeqScan(lines) ==
    [i \in 1..Len(lines) |->
        IF i = 1 THEN Scanned("skip", {}, {})
        ELSE SeqBranch(Trim(lines[i]), Skipped(Trim(lines[i])),
                       RelMatch(Trim(lines[i]), SeqArrows, TRUE))]

\* a variant without the check of participants.size
SeqFoundNoError(scan) ==
    LET participants == Cardinality(IdsOf(scan))
        hasMessages == LinesOfKind(scan, "message") # {}
    IN  Found(
          << >>,
          IF ~hasMessages /\ participants > 0
          THEN <<Finding(0, "No messages found between participants", "style")>> ELSE << >>,
          << >>)

\* what validateSequenceDiagram pushes once its loop has run
SeqFound(scan) ==
    LET participants == Cardinality(IdsOf(scan))
        hasMessages == LinesOfKind(scan, "message") # {}
    IN  Found(
          IF participants = 0
          THEN <<Finding(0, "No participants found in sequence diagram", "semantic")>> ELSE << >>,
          IF ~hasMessages /\ participants > 0
          THEN <<Finding(0, "No messages found between participants", "style")>> ELSE << >>,
          IF ~hasMessages /\ participants > 0
          THEN <<"Add messages between participants using arrows (->>, ->>)">> ELSE << >>)

validateSequenceDiagram(lines) == SeqFound(SeqScan(lines))

ClassArrowsV == << <<"-","-">>, <<".",".">>, <<"|","|">> >>

\* line.split(' ')[1] for a line that starts with 'class '
SecondWord(s) ==
    LET from == Len(<<"c","l","a","s","s"," ">>) + 1
        sp == {q \in from..Len(s) : s[q] = " "}
    IN  IF sp = {} THEN SubSeq(s, from, Len(s)) ELSE SubSeq(s, from, SetMin(sp) - 1)

\* one iteration of the loop of validateClassDiagram
ClassBranch(line, skip, relationshipMatch) ==
    IF skip THEN Scanned("skip", {}, {})
    ELSE IF StartsWith(line, <<"c","l","a","s","s"," ">>)
    THEN Scanned("class", {SecondWord(line)} \ {<< >>}, {})
    ELSE IF relationshipMatch.ok
    THEN Scanned("relationship", {relationshipMatch.from, relationshipMatch.to}, {})
    ELSE Scanned("other", {}, {})

ClassScan(lines) ==
    [i \in 1..Len(lines) |->
        IF i = 1 THEN Scanned("skip", {}, {})
        ELSE ClassBranch(Trim(lines[i]), Skipped(Trim(lines[i])),
                         RelMatch(Trim(lines[i]), ClassArrowsV, FALSE))]

ClassFound(scan) ==
    LET classes == Cardinality(IdsOf(scan))
        hasRelationships == LinesOfKind(scan, "relationship") # {}
    IN  Found(
          IF classes = 0
          THEN <<Finding(0, "No classes found in class diagram", "semantic")>> ELSE << >>,
          << >>,
          IF ~hasRelationships /\ classes > 1
          THEN <<"Add relationships between classes using connectors (--, .., ||)">> ELSE << >>)

validateClassDiagram(lines) == ClassFound(ClassScan(lines))

StateArrows == << <<"-","-",">">> >>

\* line.split(':')[0].trim() for a line that includes ':'
BeforeColon(s) == Trim(SubSeq(s, 1, SetMin({q \in 1..Len(s) : s[q] = ":"}) - 1))

\* one iteration of the loop of validateStateDiagram
StateBranch(line, skip, transitionMatch) ==
    IF skip THEN Scanned("skip", {}, {})
    ELSE IF transitionMatch.ok
    THEN Scanned("transition", {transitionMatch.from, transitionMatch.to}, {})
    ELSE IF Includes(line, <<":">>)
    THEN Scanned("state", {BeforeColon(line)} \ {<< >>}, {})
    ELSE Scanned("other", {}, {})

StateScan(lines) ==
    [i \in 1..Len(lines) |->
        IF i = 1 THEN Scanned("skip", {}, {})
        ELSE StateBranch(Trim(lines[i]), Skipped(Trim(lines[i])),
                         RelMatch(Trim(lines[i]), StateArrows, FALSE))]

StateFound(scan) ==
    LET states == Cardinality(IdsOf(scan))
        hasTransitions == LinesOfKind(scan, "transition") # {}
    IN  Found(
          IF states = 0
          THEN <<Finding(0, "No states found in state diagram", "semantic")>> ELSE << >>,
          << >>,
          IF ~hasTransitions /\ states > 1
          THEN <<"Add transitions between states using arrows (-->)">> ELSE << >>)

validateStateDiagram(lines) == StateFound(StateScan(lines))

\* lines.slice(1).filter(line => line.trim() && !line.trim().startsWith('%'))
contentLines(lines) == {i \in 2..Len(lines) : ~Skipped(Trim(lines[i]))}

validateGeneric(lines) ==
    IF contentLines(lines) = {}
    THEN Found(<< >>, <<Finding(0, "Diagram appears to be empty", "style")>>,
               <<"Add content to your diagram">>)
    ELSE Found(<< >>, << >>, << >>)

\* the bracket pairs, in the order validateGeneral counts them
Brackets == << <<"[", "]">>, <<"(", ")">>, <<"{", "}">> >>
BracketMessage == <<"Unbalanced [] brackets", "Unbalanced () brackets", "Unbalanced {} brackets">>
LongLine == 200

RECURSIVE BracketErrors(_, _, _)
\* the errors validateGeneral pushes for line i from pair b on
BracketErrors(lines, i, b) ==
    IF i > Len(lines) THEN << >>
    ELSE IF b > Len(Brackets) THEN BracketErrors(lines, i + 1, 1)
    ELSE (IF CountChar(lines[i], Brackets[b][1]) # CountChar(lines[i], Brackets[b][2])
          THEN <<Finding(i, BracketMessage[b], "syntax")>>
          ELSE << >>) \o BracketErrors(lines, i, b + 1)

validateGeneral(lines) ==
    LET long == {i \in 1..Len(lines) : Len(lines[i]) > LongLine}
    IN  Found(BracketErrors(lines, 1, 1),
              [k \in 1..Cardinality(long) |->
                  Finding(AscSeq(long)[k], "Very long line - consider breaking it up for readability",
                          "style")],
              << >>)

\* the first entry of validTypes the trimmed first line starts with ('' if none)
DiagramTypeOf(lines) ==
    FirstOk([t \in 1..Len(validTypes) |->
                [ok |-> StartsWith(Trim(lines[1]), validTypes[t]), type |-> validTypes[t]]],
            [ok |-> FALSE, type |-> << >>]).type

\* the switch on diagramType
TypeSpecific(lines, diagramType) ==
    IF diagramType \in {<<"f","l","o","w","c","h","a","r","t">>, <<"g","r","a","p","h">>} THEN validateFlowchart(lines)
    ELSE IF diagramType = <<"s","e","q","u","e","n","c","e","D","i","a","g","r","a","m">> THEN validateSequenceDiagram(lines)
    ELSE IF diagramType = <<"c","l","a","s","s","D","i","a","g","r","a","m">> THEN validateClassDiagram(lines)
    ELSE IF diagramType = <<"s","t","a","t","e","D","i","a","g","r","a","m">> THEN validateStateDiagram(lines)
    ELSE validateGeneric(lines)

\* the result of the early return for a blank diagram
EmptyResult ==
    [isValid |-> FALSE,
     errors |-> <<Finding(0, "Diagram is empty", "semantic")>>,
     warnings |-> << >>,
     suggestions |-> <<"Add a diagram type (e.g., flowchart, graph, sequenceDiagram)">>]

\* a variant in which a warning, too, makes the diagram invalid
IsValidOfStrict(errors, warnings) == Len(errors) = 0 /\ Len(warnings) = 0

\* isValid: errors.length === 0
IsValidOf(errors, warnings) == Len(errors) = 0

\* the object the function returns at its end
Returned(errors, warnings, suggestions) ==
    [isValid |-> IsValidOf(errors, warnings), errors |-> errors, warnings |-> warnings,
     suggestions |-> suggestions]

\* a variant in which the findings of validateGeneral come first
CollectedGeneralFirst(typeErrors, specific, general) ==
    Returned(general.errors \o typeErrors \o specific.errors,
             general.warnings \o specific.warnings,
             specific.suggestions \o general.suggestions)

\* the arrays after the type check, the type-specific function and validateGeneral
Collected(typeErrors, specific, general) ==
    Returned(typeErrors \o specific.errors \o general.errors,
             specific.warnings \o general.warnings,
             specific.suggestions \o general.suggestions)

\* a variant that returns as soon as the type check has failed
ValidateTypedOrStop(lines, diagramType) ==
    IF diagramType = << >>
    THEN Returned(<<Finding(1, "Invalid or missing diagram type", "syntax")>>, << >>, << >>)
    ELSE Collected(<< >>, TypeSpecific(lines, diagramType), validateGeneral(lines))

\* the function after its early return
ValidateTyped(lines, diagramType) ==
    Collected(IF diagramType = << >>
              THEN <<Finding(1, "Invalid or missing diagram type", "syntax")>> ELSE << >>,
              TypeSpecific(lines, diagramType),
              validateGeneral(lines))

\* a variant without the early return for a blank diagram
validateMermaidSyntaxNoEarlyReturn(text) == ValidateTyped(text, DiagramTypeOf(text))

validateMermaidSyntax(text) ==
    IF IsBlankText(text) THEN EmptyResult
    ELSE ValidateTyped(text, DiagramTypeOf(text))
(***************************************************************************)
(* The diagram texts the functions are applied to: every text of 1 to      *)
(* MaxLines lines whose lines are drawn from one of the line pools below   *)
(* (one pool per diagram family, each with its declaration line, blank     *)
(* lines, comments, well-formed and ill-formed body lines).                *)
(***************************************************************************)
FlowPool ==
    { <<"f","l","o","w","c","h","a","r","t"," ","T","D">>, <<"g","r","a","p","h"," ","L","R">>, << >>, <<"A","[","S","t","a","r","t","]"," ","-","-",">"," ","B","[","E","n","d","]">>, <<"A","[","S","t","a","r","t","]">>,
      <<"D","(","r",")">>, <<"B","{","o","k","}">>, <<"C","(","(","g","o",")",")">>, <<"A",">","f","l","a","g","]">>, <<"A"," ","-","-",">"," ","B">>, <<"B"," ","-","-","-"," ","A">>,
      <<"L","R">>, <<" "," ","B","T">>, <<"%","%"," ","n","o","t","e">>, <<"f","o","o"," ","b","a","r">> }

SeqPool ==
    { <<"s","e","q","u","e","n","c","e","D","i","a","g","r","a","m">>, << >>, <<"p","a","r","t","i","c","i","p","a","n","t"," ","A","l","i","c","e">>, <<"p","a","r","t","i","c","i","p","a","n","t"," ","B"," ","a","s"," ","B","o","b">>,
      <<"A","l","i","c","e","-",">",">","B",":"," ","h","i">>, <<"B","-","-",">","A","l","i","c","e",":"," ","o","k">>, <<"%","%"," ","c">>, <<"a","c","t","i","v","a","t","e"," ","B">> }

ClassPool ==
    { <<"c","l","a","s","s","D","i","a","g","r","a","m">>, << >>, <<"c","l","a","s","s"," ","A","n","i","m","a","l">>, <<"c","l","a","s","s"," "," ","D","o","g">>, <<"A","n","i","m","a","l"," ","-","-"," ","D","o","g">>,
      <<"D","o","g"," ","<","|","-","-"," ","C","a","t">>, <<"C","a","t"," ",".","."," ","A","n","i","m","a","l">>, <<"A","n","i","m","a","l"," ",":"," ","+","n","a","m","e">> }

StatePool ==
    { <<"s","t","a","t","e","D","i","a","g","r","a","m","-","v","2">>, << >>, <<"I","d","l","e"," ","-","-",">"," ","R","u","n">>, <<"R","u","n"," ","-","-",">"," ","I","d","l","e"," ",":"," ","s","t","o","p">>,
      <<"I","d","l","e"," ",":"," ","w","a","i","t","i","n","g">>, <<"[","*","]"," ","-","-",">"," ","I","d","l","e">>, <<"%","%"," ","s">>, <<"R","u","n","-","-",">","D","o","n","e">> }

\* a line longer than validateGeneral accepts without a warning
LongText == [i \in 1..(LongLine + 1) |-> "x"]

OtherPool ==
    { <<"g","a","n","t","t">>, <<"h","e","l","l","o">>, << >>, <<"\t"," ">>, <<"d","a","t","a"," ","[","1">>, <<"f","l","o","w","c","h","a","r","t"," ","T","D">>, LongText }

Pools == {FlowPool, SeqPool, ClassPool, StatePool, OtherPool}

TextsOver(pool) == UNION {[1..n -> pool] : n \in 1..MaxLines}

Texts == UNION {TextsOver(pool) : pool \in Pools}

\* texts that repeat one body line 1 to MaxRepeat times under a head: a
\* connection line adds a connection each time it occurs, a participant line
\* a node, a line of no known pattern a warning
RepeatFamilies ==
    { [head |-> <<<<"f","l","o","w","c","h","a","r","t"," ","T","D">>>>, line |-> <<"A"," ","-","-",">"," ","B">>],
      [head |-> <<<<"s","e","q","u","e","n","c","e","D","i","a","g","r","a","m">>>>, line |-> <<"p","a","r","t","i","c","i","p","a","n","t"," ","A","l","i","c","e">>],
      [head |-> <<<<"f","l","o","w","c","h","a","r","t"," ","T","D">>, <<"A","[","S","t","a","r","t","]">>>>, line |-> <<"f","o","o"," ","b","a","r">>] }

RepeatTexts ==
    {f.head \o [i \in 1..n |-> f.line] : f \in RepeatFamilies, n \in 1..MaxRepeat}
(***************************************************************************)
(* The structure analyzer (diagramAnalyzer).  An optional string (label,   *)
(* direction) is << >> when undefined and <<s>> when it is the string s.    *)
(***************************************************************************)
Node(id, label, type, shape) == [id |-> id, label |-> label, type |-> type, shape |-> shape]
Connection(from, to, type, label) == [from |-> from, to |-> to, type |-> type, label |-> label]

\* lines = diagram.split('\n').map(line => line.trim()).filter(line => line.length > 0)
RECURSIVE TrimmedLines(_)
TrimmedLines(text) ==
    IF text = << >> THEN << >>
    ELSE (IF IsBlank(Head(text)) THEN << >> ELSE <<Trim(Head(text))>>) \o TrimmedLines(Tail(text))

analyzerTypes ==
    << <<"f","l","o","w","c","h","a","r","t">>, <<"g","r","a","p","h">>, <<"s","e","q","u","e","n","c","e","D","i","a","g","r","a","m">>, <<"c","l","a","s","s","D","i","a","g","r","a","m">>, <<"s","t","a","t","e","D","i","a","g","r","a","m">>,
       <<"e","n","t","i","t","y","R","e","l","a","t","i","o","n","s","h","i","p","D","i","a","g","r","a","m">>, <<"g","a","n","t","t">>, <<"p","i","e">>, <<"j","o","u","r","n","e","y">>, <<"g","i","t","g","r","a","p","h">>,
       <<"m","i","n","d","m","a","p">>, <<"t","i","m","e","l","i","n","e">> >>

Unknown == <<"u","n","k","n","o","w","n">>

extractDiagramType(firstLine) ==
    FirstOk([t \in 1..Len(analyzerTypes) |->
                [ok |-> StartsWith(firstLine, analyzerTypes[t]), type |-> analyzerTypes[t]]],
            [ok |-> FALSE, type |-> Unknown]).type

getShapeType(shapeContent) ==
    IF StartsWith(shapeContent, <<"[">>) THEN "rectangle"
    ELSE IF StartsWith(shapeContent, <<"(">>)
         THEN (IF StartsWith(shapeContent, <<"(","(">>) THEN "circle" ELSE "rounded")
    ELSE IF StartsWith(shapeContent, <<"{">>) THEN "rhombus"
    ELSE IF StartsWith(shapeContent, <<">">>) THEN "flag"
    ELSE "rectangle"

\* shapeContent.replace(/^[\[\(\{>]+|[\]\)\}>]+$/g, '').trim()
extractLabel(shapeContent) ==
    LET openers == {"[", "(", "{", ">"}
        closers == {"]", ")", "}", ">"}
        s == shapeContent
        lead == IF \E q \in 1..Len(s) : s[q] \notin openers
                THEN SetMin({q \in 1..Len(s) : s[q] \notin openers}) - 1
                ELSE Len(s)
        r == SubSeq(s, lead + 1, Len(s))
        keep == IF \E q \in 1..Len(r) : r[q] \notin closers
                THEN SetMax({q \in 1..Len(r) : r[q] \notin closers})
                ELSE 0
    IN  Trim(SubSeq(r, 1, keep))

getNodeType(shape) ==
    CASE shape = "rhombus" -> "decision"
      [] shape = "circle" -> "start"
      [] shape = "rectangle" -> "process"
      [] OTHER -> "default"

getConnectionType(arrow) ==
    IF Includes(arrow, <<"-",".">>) THEN "dotted"
    ELSE IF Includes(arrow, <<"=">>) THEN "thick"
    ELSE IF Includes(arrow, <<">">>) THEN "arrow"
    ELSE "line"

\* the loop state of an analyze* function
LoopState(nodes, conns, keys, dir) == [nodes |-> nodes, conns |-> conns, keys |-> keys, dir |-> dir]

\* a variant of Ensure that pushes the node without asking the map / set
EnsureAlways(st, node) ==
    [st EXCEPT !.nodes = Append(@, node), !.keys = @ \cup {node.id}]

\* "ensure the node exists": push a node for id unless the map / set has the id
Ensure(st, node) ==
    IF node.id \in st.keys THEN st
    ELSE [st EXCEPT !.nodes = Append(@, node), !.keys = @ \cup {node.id}]

\* a declaration line: push the node and set / add its key, whatever the map holds
Declare(st, node) ==
    [st EXCEPT !.nodes = Append(@, node), !.keys = @ \cup {node.id}]

AddConnection(st, conn) == [st EXCEPT !.conns = Append(@, conn)]

\* the optional group (\s*SEP\s*(.+))? after the third group, trimmed
TailLabel(rest, sep) ==
    LET c == SkipWs(rest, 1)
    IN  IF c < Len(rest) /\ rest[c] = sep
        THEN <<Trim(SubSeq(rest, c + 1, Len(rest)))>>
        ELSE << >>

FlowArrowsA == << <<"-","-",">">>, <<"-","-","-">>, <<"-",".","-",">","|","-",".","-","|","o","-","-","o","|","<","=","=",">">> >>

\* push the nodes a connection line refers to, unless known, then the connection
Connect(st, fromNode, toNode, conn) == AddConnection(Ensure(Ensure(st, fromNode), toNode), conn)

\* the node a flowchart declaration line pushes
FlowNode(id, shapeContent, shape) ==
    Node(id, <<extractLabel(shapeContent)>>, getNodeType(shape), shape)

\* a variant that keeps the first direction line it meets
FlowApplyFirstDirection(st, line, nodeMatch, connectionMatch) ==
    IF IsComment(line) THEN st
    ELSE IF line \in Directions
    THEN (IF st.dir = <<<<"T","D">>>> THEN [st EXCEPT !.dir = <<line>>] ELSE st)
    ELSE IF nodeMatch.ok
    THEN Declare(st, FlowNode(nodeMatch.id, nodeMatch.shape, getShapeType(nodeMatch.shape)))
    ELSE IF connectionMatch.ok
    THEN Connect(st, Node(connectionMatch.from, << >>, "default", "none"),
                 Node(connectionMatch.to, << >>, "default", "none"),
                 Connection(connectionMatch.from, connectionMatch.to,
                            getConnectionType(connectionMatch.arrow),
                            TailLabel(connectionMatch.rest, "|")))
    ELSE st

\* one iteration of the loop of analyzeFlowchart, given its two matches
FlowApply(st, line, nodeMatch, connectionMatch) ==
    IF IsComment(line) THEN st
    ELSE IF line \in Directions THEN [st EXCEPT !.dir = <<line>>]
    ELSE IF nodeMatch.ok
    THEN Declare(st, FlowNode(nodeMatch.id, nodeMatch.shape, getShapeType(nodeMatch.shape)))
    ELSE IF connectionMatch.ok
    THEN Connect(st, Node(connectionMatch.from, << >>, "default", "none"),
                 Node(connectionMatch.to, << >>, "default", "none"),
                 Connection(connectionMatch.from, connectionMatch.to,
                            getConnectionType(connectionMatch.arrow),
                            TailLabel(connectionMatch.rest, "|")))
    ELSE st

\* one iteration of the loop of analyzeFlowchart
FlowStep(st, line) ==
    FlowApply(st, line, NodeMatch(line), RelMatch(line, FlowArrowsA, FALSE))

NoParticipant == [ok |-> FALSE, id |-> << >>, alias |-> << >>]

\* \s+as\s+(.+)$ matches r; the alias is what follows
AsClause(r) ==
    LET a == SkipWs(r, 1)
        b == SkipWs(r, a + 2)
    IN  /\ a > 1
        /\ StartsWithAt(r, a, <<"a","s">>)
        /\ b > a + 2
        /\ b <= Len(r)

\* (\s+as\s+(.+))?$ on what follows the id
ParticipantRest(id, r) ==
    IF r = << >> THEN [ok |-> TRUE, id |-> id, alias |-> << >>]
    ELSE IF AsClause(r)
    THEN [ok |-> TRUE, id |-> id, alias |-> SubSeq(r, SkipWs(r, SkipWs(r, 1) + 2), Len(r))]
    ELSE NoParticipant

\* (.+?) from position q: the id is the shortest that lets the rest match
ParticipantFrom(s, q) ==
    FirstOk([e \in 1..(Len(s) - q + 1) |->
                ParticipantRest(SubSeq(s, q, q + e - 1), SubSeq(s, q + e, Len(s)))],
            NoParticipant)

\* \s+ from position w, after the word participant
ParticipantAt(s, w) ==
    IF SkipWs(s, w) > w /\ SkipWs(s, w) <= Len(s)
    THEN ParticipantFrom(s, SkipWs(s, w)) ELSE NoParticipant

\* /^\s*participant\s+(.+?)(\s+as\s+(.+))?$/
ParticipantMatch(s) ==
    IF StartsWithAt(s, SkipWs(s, 1), <<"p","a","r","t","i","c","i","p","a","n","t">>)
    THEN ParticipantAt(s, SkipWs(s, 1) + Len(<<"p","a","r","t","i","c","i","p","a","n","t">>)) ELSE NoParticipant

SeqApply(st, line, participantMatch, messageMatch) ==
    IF IsComment(line) THEN st
    ELSE IF participantMatch.ok
    THEN Declare(st, Node(participantMatch.id,
                          <<IF participantMatch.alias # << >> THEN participantMatch.alias
                            ELSE participantMatch.id>>,
                          "participant", "none"))
    ELSE IF messageMatch.ok
    THEN Connect(st, Node(messageMatch.from, <<messageMatch.from>>, "participant", "none"),
                 Node(messageMatch.to, <<messageMatch.to>>, "participant", "none"),
                 Connection(messageMatch.from, messageMatch.to,
                            IF Includes(messageMatch.arrow, <<">",">">>) THEN "arrow" ELSE "line",
                            TailLabel(messageMatch.rest, ":")))
    ELSE st

\* one iteration of the loop of analyzeSequenceDiagram
SeqStep(st, line) ==
    SeqApply(st, line, ParticipantMatch(line), RelMatch(line, SeqArrows, TRUE))

\* \s+([A-Za-z0-9_-]+) from position w, after the word class
ClassAt(s, w) ==
    IF SkipWs(s, w) > w /\ IdRun(s, SkipWs(s, w)) >= 1
    THEN [ok |-> TRUE,
          id |-> SubSeq(s, SkipWs(s, w), SkipWs(s, w) + IdRun(s, SkipWs(s, w)) - 1),
          shape |-> << >>]
    ELSE NoMatch

\* /^\s*class\s+([A-Za-z0-9_-]+)/
ClassMatch(s) ==
    IF StartsWithAt(s, SkipWs(s, 1), <<"c","l","a","s","s">>)
    THEN ClassAt(s, SkipWs(s, 1) + Len(<<"c","l","a","s","s">>)) ELSE NoMatch

ClassArrowsA == << <<"-","-">>, <<".",".">>, <<"|","|">>, <<"<","|","-","-">>, <<"*","-","-">>, <<")","-","-">>, <<"}","-","-">>, <<"o","-","-">> >>

ClassApply(st, line, classMatch, relationMatch) ==
    IF IsComment(line) THEN st
    ELSE IF classMatch.ok
    THEN Declare(st, Node(classMatch.id, <<classMatch.id>>, "class", "none"))
    ELSE IF relationMatch.ok
    THEN Connect(st, Node(relationMatch.from, <<relationMatch.from>>, "class", "none"),
                 Node(relationMatch.to, <<relationMatch.to>>, "class", "none"),
                 Connection(relationMatch.from, relationMatch.to, "line", << >>))
    ELSE st

\* one iteration of the loop of analyzeClassDiagram
ClassStep(st, line) ==
    ClassApply(st, line, ClassMatch(line), RelMatch(line, ClassArrowsA, FALSE))

StateApply(st, line, transitionMatch) ==
    IF IsComment(line) THEN st
    ELSE IF transitionMatch.ok
    THEN Connect(st, Node(transitionMatch.from, <<transitionMatch.from>>, "default", "none"),
                 Node(transitionMatch.to, <<transitionMatch.to>>, "default", "none"),
                 Connection(transitionMatch.from, transitionMatch.to, "arrow",
                            TailLabel(transitionMatch.rest, ":")))
    ELSE st

\* one iteration of the loop of analyzeStateDiagram
StateStep(st, line) == StateApply(st, line, RelMatch(line, StateArrows, FALSE))

FlowTypes == {<<"f","l","o","w","c","h","a","r","t">>, <<"g","r","a","p","h">>}
LoopTypes == FlowTypes \cup {<<"s","e","q","u","e","n","c","e","D","i","a","g","r","a","m">>, <<"c","l","a","s","s","D","i","a","g","r","a","m">>, <<"s","t","a","t","e","D","i","a","g","r","a","m">>}

\* the loop body analyzeDiagram's switch selects for the type
StepOf(type, st, line) ==
    IF type \in FlowTypes THEN FlowStep(st, line)
    ELSE IF type = <<"s","e","q","u","e","n","c","e","D","i","a","g","r","a","m">> THEN SeqStep(st, line)
    ELSE IF type = <<"c","l","a","s","s","D","i","a","g","r","a","m">> THEN ClassStep(st, line)
    ELSE StateStep(st, line)

extractMetadata(lines) ==
    [hasComments |-> \E i \in 1..Len(lines) : IsComment(Trim(lines[i])),
     hasStyles |-> \E i \in 1..Len(lines) :
                      \/ Includes(lines[i], <<"s","t","y","l","e">>)
                      \/ Includes(lines[i], <<"f","i","l","l",":">>)
                      \/ Includes(lines[i], <<"s","t","r","o","k","e",":">>),
     hasSubgraphs |-> \E i \in 1..Len(lines) : Includes(lines[i], <<"s","u","b","g","r","a","p","h">>),
     lineCount |-> Len(lines),
     estimatedRenderTime |-> IF Len(lines) * 10 > 100 THEN Len(lines) * 10 ELSE 100]

\* a variant whose thresholds are exclusive
calculateComplexityExclusive(nodeCount, connectionCount) ==
    LET totalElements == nodeCount + connectionCount
    IN  IF totalElements < 5 THEN "simple"
        ELSE IF totalElements < 15 THEN "moderate"
        ELSE "complex"

calculateComplexity(nodeCount, connectionCount) ==
    LET totalElements == nodeCount + connectionCount
    IN  IF totalElements <= 5 THEN "simple"
        ELSE IF totalElements <= 15 THEN "moderate"
        ELSE "complex"

generateAnalysisSuggestions(nodeCount, connectionCount, metadata, complexity) ==
    (IF nodeCount = 0 THEN <<"Add nodes to your diagram">>
     ELSE IF nodeCount = 1 THEN <<"Consider adding more nodes">> ELSE << >>)
    \o (IF connectionCount = 0 /\ nodeCount > 1
        THEN <<"Add connections between nodes">> ELSE << >>)
    \o (IF ~metadata.hasStyles /\ nodeCount > 3
        THEN <<"Consider adding colors and styling">> ELSE << >>)
    \o (IF ~metadata.hasComments /\ complexity = "complex"
        THEN <<"Add comments to document complex parts">> ELSE << >>)
    \o (IF complexity = "complex" THEN <<"Consider breaking into smaller diagrams">> ELSE << >>)

getEmptyAnalysis ==
    [type |-> <<"e","m","p","t","y">>, nodeCount |-> 0, connectionCount |-> 0, complexity |-> "simple",
     structure |-> [nodes |-> << >>, connections |-> << >>, direction |-> << >>],
     suggestions |-> <<"Start by adding a diagram type (e.g., flowchart TD)">>,
     metadata |-> [hasComments |-> FALSE, hasStyles |-> FALSE, hasSubgraphs |-> FALSE,
                   lineCount |-> 0, estimatedRenderTime |-> 0]]

\* the object analyzeDiagram returns
Analysed(type, nodes, conns, dir, metadata, complexity) ==
    [type |-> type, nodeCount |-> Len(nodes), connectionCount |-> Len(conns),
     complexity |-> complexity,
     structure |-> [nodes |-> nodes, connections |-> conns, direction |-> dir],
     suggestions |-> generateAnalysisSuggestions(Len(nodes), Len(conns), metadata, complexity),
     metadata |-> metadata]

\* the DiagramAnalysis analyzeDiagram returns once the loop of the type has run
AnalysisOf(type, lines, nodes, conns, dir) ==
    Analysed(type, nodes, conns, dir, extractMetadata(lines),
             calculateComplexity(Len(nodes), Len(conns)))
(***************************************************************************)
(* The intent classifier (aiPromptProcessor.analyzeIntent).  A confidence  *)
(* is kept in tenths: 9 stands for 0.9.                                    *)
(***************************************************************************)
HasAny(s, words) == \E k \in 1..Len(words) : Includes(s, words[k])

CreateWords == << <<"c","r","e","a","t","e">>, <<"m","a","k","e">>, <<"b","u","i","l","d">>, <<"g","e","n","e","r","a","t","e">> >>
ModifyWords == << <<"a","d","d">>, <<"r","e","m","o","v","e">>, <<"c","h","a","n","g","e">>, <<"u","p","d","a","t","e">>, <<"m","o","d","i","f","y">>, <<"e","d","i","t">>, <<"d","e","l","e","t","e">> >>
ExplainWords == << <<"e","x","p","l","a","i","n">>, <<"w","h","a","t">>, <<"h","o","w">>, <<"w","h","y">>, <<"d","e","s","c","r","i","b","e">> >>
HelpWords == << <<"h","e","l","p">>, <<"h","o","w"," ","t","o">>, <<"t","u","t","o","r","i","a","l">>, <<"g","u","i","d","e">>, <<"e","x","a","m","p","l","e">> >>
ExportWords == << <<"e","x","p","o","r","t">>, <<"d","o","w","n","l","o","a","d">>, <<"s","a","v","e"," ","a","s">>, <<"p","d","f">>, <<"p","n","g">>, <<"s","v","g">> >>

\* the conditions of the five branches, on the lower-cased prompt
IsCreate(lowerPrompt, cur) ==
    HasAny(lowerPrompt, CreateWords) \/ (IsBlankText(cur) /\ Includes(lowerPrompt, <<"d","i","a","g","r","a","m">>))

\* a variant of IsModify that ignores the current diagram
IsModifyWordsOnly(lowerPrompt, cur) == HasAny(lowerPrompt, ModifyWords)

\* the modify keywords, or a non-blank current diagram
IsModify(lowerPrompt, cur) == HasAny(lowerPrompt, ModifyWords) \/ ~IsBlankText(cur)

IsExplain(lowerPrompt) == HasAny(lowerPrompt, ExplainWords)
IsHelp(lowerPrompt) == HasAny(lowerPrompt, HelpWords)
IsExport(lowerPrompt) == HasAny(lowerPrompt, ExportWords)

\* extractRequirements, without its 'node: <name>' entries (a scan for names
\* after node/box/step/...), which nothing in this model reads
extractRequirements(p) ==
    LET lowerPrompt == ToLowerCase(p)
    IN  (IF HasAny(lowerPrompt, << <<"c","o","n","n","e","c","t">>, <<"l","i","n","k">>, <<"a","r","r","o","w">> >>)
         THEN <<"connections: true">> ELSE << >>)
        \o (IF HasAny(lowerPrompt, << <<"c","o","l","o","r">>, <<"s","t","y","l","e">>, <<"t","h","e","m","e">> >>)
            THEN <<"styling: custom">> ELSE << >>)
        \o (IF HasAny(lowerPrompt, << <<"t","o","p"," ","t","o"," ","b","o","t","t","o","m">>, <<"v","e","r","t","i","c","a","l">> >>)
            THEN <<"direction: TB">>
            ELSE IF HasAny(lowerPrompt, << <<"l","e","f","t"," ","t","o"," ","r","i","g","h","t">>, <<"h","o","r","i","z","o","n","t","a","l">> >>)
            THEN <<"direction: LR">> ELSE << >>)

Processed(intent, confidence, requirements) ==
    [intent |-> intent, confidence |-> confidence, requirements |-> requirements]

\* a variant of analyzeIntent that tests the modify branch before the create branch
analyzeIntentModifyFirst(p, cur) ==
    LET lowerPrompt == ToLowerCase(p)
    IN  IF IsModify(lowerPrompt, cur) THEN Processed("modify", 8, extractRequirements(p))
        ELSE IF IsCreate(lowerPrompt, cur) THEN Processed("create", 9, extractRequirements(p))
        ELSE IF IsExplain(lowerPrompt) THEN Processed("explain", 7, << >>)
        ELSE IF IsHelp(lowerPrompt) THEN Processed("help", 8, << >>)
        ELSE IF IsExport(lowerPrompt) THEN Processed("export", 9, << >>)
        ELSE Processed("unknown", 1, << >>)

analyzeIntent(p, cur) ==
    LET lowerPrompt == ToLowerCase(p)
    IN  IF IsCreate(lowerPrompt, cur) THEN Processed("create", 9, extractRequirements(p))
        ELSE IF IsModify(lowerPrompt, cur) THEN Processed("modify", 8, extractRequirements(p))
        ELSE IF IsExplain(lowerPrompt) THEN Processed("explain", 7, << >>)
        ELSE IF IsHelp(lowerPrompt) THEN Processed("help", 8, << >>)
        ELSE IF IsExport(lowerPrompt) THEN Processed("export", 9, << >>)
        ELSE Processed("unknown", 1, << >>)

\* the prompts and current diagrams analyzeIntent is applied to
Prompts ==
    { <<"a","d","d"," ","a"," ","n","e","w"," ","s","t","e","p">>, <<"C","r","e","a","t","e"," ","a"," ","c","h","a","r","t">>, <<"m","a","k","e"," ","a","n","d"," ","a","d","d">>, <<"e","x","p","l","a","i","n"," ","t","h","e"," ","e","x","p","o","r","t">>,
      <<"s","h","o","w"," ","m","e"," ","a"," ","D","i","a","g","r","a","m">>, <<"h","e","l","p">>, <<"h","o","w"," ","t","o"," ","s","t","a","r","t">>, <<"d","o","w","n","l","o","a","d"," ","p","d","f">>, <<"h","e","l","l","o">>,
      << >>, <<"s","o","m","e","w","h","a","t">>, <<"t","u","t","o","r","i","a","l">>, <<"s","a","v","e"," ","a","s"," ","p","n","g">> }

IntentPool == { << >>, <<"\t"," ">>, <<"f","l","o","w","c","h","a","r","t"," ","T","D">>, <<"A","-","-",">","B">> }
IntentTexts == TextsOver(IntentPool)

(***************************************************************************)
(* The chat flow.  An optional text is NoText (undefined) or a text; the   *)
(* empty string is the text << <<>> >>.  In a reply of the language model  *)
(* the three backticks of a fence (written <fence> below) and the word     *)
(* mermaid are one symbol each, so that a fence is found by comparing      *)
(* symbols.                                                                *)
(***************************************************************************)
Fence == "<fence>"
NoText == << >>
EmptyString == << << >> >>
Truthy(text) == text # NoText /\ text # EmptyString

\* String.prototype.trim on a text of several lines
TrimText(text) ==
    IF IsBlankText(text) THEN EmptyString
    ELSE LET nb == {i \in 1..Len(text) : ~IsBlank(text[i])}
             f == SetMin(nb)
             l == SetMax(nb)
             TrimStart(s) == SubSeq(s, SetMin({q \in 1..Len(s) : s[q] \notin Whitespace}), Len(s))
             TrimEnd(s) == SubSeq(s, 1, SetMax({q \in 1..Len(s) : s[q] \notin Whitespace}))
         IN  [k \in 1..(l - f + 1) |->
                 LET s == text[f + k - 1]
                     a == IF k = 1 THEN TrimStart(s) ELSE s
                 IN  IF k = l - f + 1 THEN TrimEnd(a) ELSE a]

\* line i ends with <fence>mermaid and a newline follows
OpensBlock(c, i) ==
    /\ i < Len(c)
    /\ Len(c[i]) >= 2
    /\ c[i][Len(c[i]) - 1] = Fence
    /\ c[i][Len(c[i])] = "mermaid"

\* a newline precedes line j, which starts with <fence>
ClosesBlock(c, j) == Len(c[j]) >= 1 /\ c[j][1] = Fence

NoBlock == [ok |-> FALSE, open |-> 0, close |-> 0]

\* the first match of /<fence>mermaid\n([\s\S]*?)\n<fence>/: the lines strictly between
\* open and close are the captured group
BlockMatch(c) ==
    LET Closers(i) == {j \in (i + 2)..Len(c) : ClosesBlock(c, j)}
        I == {i \in 1..Len(c) : OpensBlock(c, i) /\ Closers(i) # {}}
    IN  IF I = {} THEN NoBlock
        ELSE [ok |-> TRUE, open |-> SetMin(I), close |-> SetMin(Closers(SetMin(I)))]

\* mermaidMatch ? mermaidMatch[1].trim() : ''
ExtractDiagram(c) ==
    LET m == BlockMatch(c)
    IN  IF m.ok THEN TrimText(SubSeq(c, m.open + 1, m.close - 1)) ELSE EmptyString

RECURSIVE RemoveBlocks(_)
\* content.replace(/<fence>mermaid\n[\s\S]*?\n<fence>/g, ''): every match, left to right
RemoveBlocks(c) ==
    LET m == BlockMatch(c)
    IN  IF ~m.ok THEN c
        ELSE LET r == RemoveBlocks(<<Tail(c[m.close])>> \o SubSeq(c, m.close + 1, Len(c)))
                 head == SubSeq(c[m.open], 1, Len(c[m.open]) - 2)
             IN  SubSeq(c, 1, m.open - 1) \o <<head \o r[1]>> \o Tail(r)

NoDiagramResult(reason) ==
    [ok |-> FALSE, diagram |-> NoText, explanation |-> NoText, error |-> reason]

\* generateDiagram once mermaidMatch has given the diagram mermaid
Generated(content, mermaid) ==
    IF mermaid = EmptyString
    THEN NoDiagramResult("No valid Mermaid diagram found in response")
    ELSE [ok |-> TRUE, diagram |-> mermaid,
          explanation |-> TrimText(RemoveBlocks(content)), error |-> ""]

\* openAIService.generateDiagram once the completion has arrived with content
generateDiagram(content) ==
    IF content = EmptyString THEN NoDiagramResult("No response from OpenAI")
    ELSE Generated(content, ExtractDiagram(content))

\* aiPromptProcessor.parseAIResponse: the diagram it extracts ('' if none)
parseAIResponse(response) == ExtractDiagram(response)

Apology == << <<"I"," ","a","p","o","l","o","g","i","z","e",","," ","b","u","t"," ","I"," ","e","n","c","o","u","n","t","e","r","e","d"," ","a","n"," ","e","r","r","o","r"," ","p","r","o","c","e","s","s","i","n","g"," ","y","o","u","r"," ","r","e","q","u","e","s","t","."," ","P","l","e","a","s","e"," ","t","r","y"," ","a","g","a","i","n",".">> >>

\* processChat from the computation of finalDiagram to its return.  The
\* response carries, besides the fields of ChatResponse, the text handed to
\* validateMermaidSyntax (NoText if it was not called) and its result.
Answered(intent, result, aiDiagram, validation, finalDiagram) ==
    [message |-> result.explanation,
     updatedDiagram |->
         IF Truthy(finalDiagram) /\ (validation = NoResult \/ validation.isValid)
         THEN finalDiagram ELSE NoText,
     error |-> "",
     intent |-> intent.intent,
     validated |-> IF Truthy(aiDiagram) THEN aiDiagram ELSE NoText,
     validationResult |-> validation]

\* processChat once parseAIResponse has given aiDiagram
Parsed(intent, result, aiDiagram) ==
    Answered(intent, result, aiDiagram,
             IF Truthy(aiDiagram) THEN validateMermaidSyntax(aiDiagram) ELSE NoResult,
             IF Truthy(aiDiagram) THEN aiDiagram ELSE result.diagram)

\* processChat once generateDiagram has returned result or thrown
Responded(intent, result) ==
    IF ~result.ok
    THEN [message |-> Apology, updatedDiagram |-> NoText, error |-> result.error,
          intent |-> "", validated |-> NoText, validationResult |-> NoResult]
    ELSE Parsed(intent, result, parseAIResponse(result.explanation))

\* chatService.processChat: outcome is the model's reply [content] or a
\* failure of the call [error]
processChat(message, cur, outcome) ==
    Responded(analyzeIntent(message, IF cur = NoText THEN EmptyString ELSE cur),
              IF outcome.failed THEN NoDiagramResult(outcome.error)
              ELSE generateDiagram(outcome.content))

(***************************************************************************)
(* The stores.                                                             *)
(***************************************************************************)
DEFAULT_DIAGRAM ==
    << <<"f","l","o","w","c","h","a","r","t"," ","T","D">>, <<" "," "," "," ","A","[","S","t","a","r","t","]"," ","-","-",">"," ","B","{","D","e","c","i","s","i","o","n","}">>, <<" "," "," "," ","B"," ","-","-",">","|","Y","e","s","|"," ","C","[","P","r","o","c","e","s","s"," ","A","]">>,
       <<" "," "," "," ","B"," ","-","-",">","|","N","o","|"," ","D","[","P","r","o","c","e","s","s"," ","B","]">>, <<" "," "," "," ","C"," ","-","-",">"," ","E","[","E","n","d","]">>, <<" "," "," "," ","D"," ","-","-",">"," ","E">> >>

createInitialEditorState == [content |-> DEFAULT_DIAGRAM, cursorPosition |-> 0, isValid |-> TRUE]

INITIAL_API_KEY_STATE == [hasKey |-> FALSE, isValid |-> "undefined"]

\* a variant that replaces the content of the diagram and leaves the editor's
updateDiagramContentStoreOnly(cur, editor, content) ==
    IF cur # NoText
    THEN <<content, editor>>
    ELSE <<cur, editor>>

\* diagram store, updateDiagramContent: the new <<currentDiagram, editorState>>
updateDiagramContent(cur, editor, content) ==
    IF cur # NoText
    THEN <<content, [editor EXCEPT !.content = content]>>
    ELSE <<cur, editor>>

Message(role, content, diagramUpdate) ==
    [role |-> role, content |-> content, diagramUpdate |-> diagramUpdate]

\* apiKey.hasKey && apiKey.isValid !== false
isChatAvailable == apiKey.hasKey /\ apiKey.isValid # "false"


(***************************************************************************)
(* The chat store.  Its actions are functions of the store's data          *)
(* [messages, isLoading, error, currentInput]; error is "<undefined>",     *)
(* "<null>" or a message.                                                  *)
(***************************************************************************)
addMessage(chat, role, content, diagramUpdate) ==
    [chat EXCEPT !.messages = Append(@, Message(role, content, diagramUpdate)),
                 !.error = "<undefined>"]

setCurrentInput(chat, input) == [chat EXCEPT !.currentInput = input]

setLoading(chat, loading) ==
    [chat EXCEPT !.isLoading = loading,
                 !.error = IF loading THEN "<undefined>" ELSE @]

setError(chat, e) == [chat EXCEPT !.error = e, !.isLoading = FALSE]

clearMessages(chat) ==
    [chat EXCEPT !.messages = << >>, !.error = "<undefined>", !.currentInput = << >>]

\* the index of the last message of role user, 0 when there is none
LastUserIndex(ms) ==
    IF \E i \in 1..Len(ms) : ms[i].role = "user"
    THEN SetMax({i \in 1..Len(ms) : ms[i].role = "user"})
    ELSE 0

\* getLastUserMessage: the message, or NoResult for null
getLastUserMessage(ms) == IF LastUserIndex(ms) = 0 THEN NoResult ELSE ms[LastUserIndex(ms)]

retryLastMessage(chat) ==
    IF LastUserIndex(chat.messages) = 0
    THEN chat
    ELSE [chat EXCEPT !.messages = SubSeq(@, 1, LastUserIndex(chat.messages)),
                      !.currentInput = chat.messages[LastUserIndex(chat.messages)].content,
                      !.error = "<undefined>"]

\* useChat.sendMessage up to its await, on the data of the chat store
SendStart(chat, m) ==
    setError(setLoading(setCurrentInput(addMessage(chat, "user", m, FALSE), << >>), TRUE),
             "<null>")

\* a variant of the end of sendMessage that records a failure without adding
\* the apology message
SendEndSilentFailure(chat, response) ==
    setLoading(IF response.error # ""
               THEN setError(chat, response.error)
               ELSE addMessage(chat, "assistant", response.message,
                               Truthy(response.updatedDiagram)),
               FALSE)

\* useChat.sendMessage from the return of processChat to its end
SendEnd(chat, response) ==
    setLoading(IF response.error # ""
               THEN addMessage(setError(chat, response.error), "assistant", Apology, FALSE)
               ELSE addMessage(chat, "assistant", response.message,
                               Truthy(response.updatedDiagram)),
               FALSE)

(***************************************************************************)
(* The diagram store and the storage utilities.  A saved diagram is a      *)
(* record [id, content]; the open diagram is the pair of currentId and     *)
(* currentDiagram (its content).                                           *)
(***************************************************************************)
DiagramIds == 1..MaxDiagrams

Diagram(id, content) == [id |-> id, content |-> content]

IdsIn(ds) == {ds[i].id : i \in 1..Len(ds)}

\* generateId: an id no diagram bears (0 when the ids of the model are used up)
generateId(used) ==
    IF DiagramIds \subseteq used THEN 0 ELSE SetMin(DiagramIds \ used)

\* a variant of the editor state of a diagram being opened: the initial state
EditorOfDefault(content) == createInitialEditorState

\* setCurrentDiagram / loadDiagram: the editor state of the diagram being opened
EditorOf(content) == [content |-> content, cursorPosition |-> 0, isValid |-> TRUE]

\* setValidationResult: the editor state
ValidatedEditor(editor, result) ==
    [editor EXCEPT !.isValid = IF result # NoResult THEN result.isValid ELSE TRUE]

\* diagrams.filter(d => d.id !== id)
WithoutId(ds, id) ==
    LET Keep(d) == d.id # id IN SelectSeq(ds, Keep)

\* a variant of deleteDiagram that writes the list back as it was
deleteDiagramKeepingAll(ds, id) == ds

\* storage utilities, deleteDiagram: the array written to storage
deleteDiagram(ds, id) == WithoutId(ds, id)

\* storage utilities, saveDiagram: the array written to storage
saveDiagram(ds, d) ==
    IF d.id \in IdsIn(ds)
    THEN [i \in 1..Len(ds) |-> IF ds[i].id = d.id THEN d ELSE ds[i]]
    ELSE Append(ds, d)

\* storage utilities, getDiagramById: the diagram, or NoResult for null
getDiagramById(ds, id) ==
    IF id \in IdsIn(ds) THEN ds[SetMin({i \in 1..Len(ds) : ds[i].id = id})] ELSE NoResult
(***************************************************************************)
(* utils/debounce.ts, debounceAsync.  The closure variables timeout,       *)
(* latestResolve and latestReject hold 0 for null and otherwise the number *)
(* of the call whose timer handle / resolve / reject they hold.  Each call *)
(* of debouncedFunction is a record: its arguments, the state of the       *)
(* promise it returned, the state of the timer it set, the position of     *)
(* func for its arguments, and how many calls had been made when its timer *)
(* fired (firedAt) and when func's outcome settled its promise (settledAt).*)
(***************************************************************************)
DebounceArgs == {"a", "b"}

Call(args) ==
    [args |-> args, promise |-> "pending", timer |-> "armed", func |-> "idle",
     firedAt |-> 0, settledAt |-> 0]

\* clearTimeout(t): an armed timer is disarmed, a timer that has fired is left alone
clearTimeout(cs, t) ==
    IF t # 0 /\ cs[t].timer = "armed" THEN [cs EXCEPT ![t].timer = "cleared"] ELSE cs

\* reject of call k (0: no call) with the reason given; a settled promise stays as it is
RejectCall(cs, k, reason) ==
    IF k # 0 /\ cs[k].promise = "pending" THEN [cs EXCEPT ![k].promise = reason] ELSE cs

\* resolve of call k; a settled promise stays as it is
ResolveCall(cs, k) ==
    IF k # 0 /\ cs[k].promise = "pending"
    THEN [cs EXCEPT ![k].promise = "resolved", ![k].settledAt = Len(cs)]
    ELSE cs

\* the executor of the promise debouncedFunction(args) returns
debouncedFunction(cs, t, rej, args) ==
    Append(RejectCall(clearTimeout(cs, t), rej, "cancelled"), Call(args))

\* the try / catch of the timer callback of call k once func has settled
FuncSettled(cs, k, res, rej, ok) ==
    LET done == [cs EXCEPT ![k].func = "returned"]
    IN  IF ok
        THEN IF res = k THEN ResolveCall(done, k) ELSE done
        ELSE IF rej = k
             THEN [RejectCall(done, k, "rejected") EXCEPT ![k].settledAt = Len(cs)]
             ELSE done

(***************************************************************************)
(* Initial values of the parts of the state a specification does not use.  *)
(***************************************************************************)
VIdle == diagram = << << >> >> /\ vres = NoResult
AIdle == /\ apc = "idle" /\ atype = << >> /\ alines = << >> /\ ai = 0
         /\ anodes = << >> /\ aconns = << >> /\ akeys = {} /\ adir = << >>
         /\ ares = NoResult
IIdle == prompt = << >> /\ ires = NoResult
CIdle == /\ currentDiagram = NoText /\ editorState = createInitialEditorState
         /\ messages = << >> /\ isLoading = FALSE /\ error = "<undefined>"
         /\ currentInput = << >> /\ apiKey = INITIAL_API_KEY_STATE
         /\ inflight = {} /\ lastChat = NoResult /\ lastWrite = NoResult
         /\ lastSend = NoResult
DIdle == timeout = 0 /\ latestResolve = 0 /\ latestReject = 0 /\ calls = << >>
SIdle == /\ currentId = 0 /\ validationResult = NoResult
         /\ savedDiagrams = << >> /\ storage = << >> /\ lastDelete = NoResult

(***************************************************************************)
(* SpecValidate: validateMermaidSyntax applied to every text of Texts and   *)
(* of RepeatTexts.                                                         *)
(***************************************************************************)
InitValidate == diagram \in Texts \cup RepeatTexts /\ vres = NoResult /\ AIdle /\ IIdle /\ CIdle /\ DIdle /\ SIdle

Validate ==
    /\ vres = NoResult
    /\ vres' = validateMermaidSyntax(diagram)
    /\ UNCHANGED <<diagram, avars, ivars, cvars, dvars, svars>>

NextValidate == Validate

SpecValidate == InitValidate /\ [][NextValidate]_vars

(***************************************************************************)
(* SpecAnalyze: analyzeDiagram applied to every text of Texts and of       *)
(* RepeatTexts, one action                                                 *)
(* for its entry, one per iteration of the loop of the analyze* function   *)
(* its switch selects, and one for its exit.                               *)
(***************************************************************************)
InitAnalyze == diagram \in Texts \cup RepeatTexts /\ vres = NoResult /\ AIdle /\ IIdle /\ CIdle /\ DIdle /\ SIdle

AnalyzeEmpty ==
    /\ apc = "idle"
    /\ IsBlankText(diagram)
    /\ apc' = "done"
    /\ ares' = getEmptyAnalysis
    /\ UNCHANGED <<atype, alines, ai, anodes, aconns, akeys, adir, vvars, ivars, cvars, dvars, svars>>

AnalyzeStart ==
    /\ apc = "idle"
    /\ ~IsBlankText(diagram)
    /\ alines' = TrimmedLines(diagram)
    /\ atype' = extractDiagramType(TrimmedLines(diagram)[1])
    /\ ai' = 2
    /\ anodes' = << >>
    /\ aconns' = << >>
    /\ akeys' = {}
    /\ adir' = IF extractDiagramType(TrimmedLines(diagram)[1]) \in FlowTypes
               THEN <<<<"T","D">>>> ELSE << >>
    /\ apc' = "loop"
    /\ UNCHANGED <<ares, vvars, ivars, cvars, dvars, svars>>

AnalyzeStep ==
    /\ apc = "loop"
    /\ atype \in LoopTypes
    /\ ai <= Len(alines)
    /\ LET st == StepOf(atype, LoopState(anodes, aconns, akeys, adir), alines[ai])
       IN  /\ anodes' = st.nodes
           /\ aconns' = st.conns
           /\ akeys' = st.keys
           /\ adir' = st.dir
    /\ ai' = ai + 1
    /\ UNCHANGED <<apc, atype, alines, ares, vvars, ivars, cvars, dvars, svars>>

AnalyzeReturn ==
    /\ apc = "loop"
    /\ atype \notin LoopTypes \/ ai > Len(alines)
    /\ ares' = AnalysisOf(atype, alines, anodes, aconns, adir)
    /\ apc' = "done"
    /\ UNCHANGED <<atype, alines, ai, anodes, aconns, akeys, adir, vvars, ivars, cvars, dvars, svars>>

NextAnalyze == AnalyzeEmpty \/ AnalyzeStart \/ AnalyzeStep \/ AnalyzeReturn

SpecAnalyze == InitAnalyze /\ [][NextAnalyze]_vars

(***************************************************************************)
(* SpecIntent: analyzeIntent applied to every prompt of Prompts and every  *)
(* current diagram of IntentTexts.                                         *)
(***************************************************************************)
InitIntent ==
    /\ diagram \in IntentTexts /\ vres = NoResult
    /\ prompt \in Prompts /\ ires = NoResult
    /\ AIdle /\ CIdle /\ DIdle /\ SIdle

AnalyzeIntent ==
    /\ ires = NoResult
    /\ ires' = analyzeIntent(prompt, diagram)
    /\ UNCHANGED <<prompt, vvars, avars, cvars, dvars, svars>>

NextIntent == AnalyzeIntent

SpecIntent == InitIntent /\ [][NextIntent]_vars

(***************************************************************************)
(* Spec: the editor and the chat panel.  The user edits the diagram, sets  *)
(* and validates the API key and sends chat messages; each sendMessage     *)
(* waits for chatService.processChat, whose call of the language model     *)
(* ends with a reply or with a failure.                                    *)
(***************************************************************************)
EditTexts == { <<<<"g","r","a","p","h"," ","L","R">>, <<"X"," ","-","-",">"," ","Y">>>>, <<<<"g","r","a","p","h"," ","L","R">>, <<"X"," ","-","-",">"," ","Z">>>> }

ChatDiagrams == { <<<<"f","l","o","w","c","h","a","r","t"," ","T","D">>, <<"A"," ","-","-",">"," ","B">>>>, <<<<"h","e","l","l","o">>>> }

ChatPrompts == { <<" ","a","d","d"," ","a"," ","n","e","w"," ","s","t","e","p">>, <<" "," ">> }

Block(d) == << <<Fence, "mermaid">> >> \o d \o << <<Fence>> >>

\* the replies of the language model: no block, an empty reply, one block, and
\* a block inside a block (what is left when the first is removed is a block)
Replies ==
    { <<<<"o","k">>>>, EmptyString }
      \cup {<<<<"H","e","r","e",":">>>> \o Block(d) \o <<<<"D","o","n","e">>>> : d \in ChatDiagrams}
      \cup {<< <<Fence, Fence, "mermaid">> >> \o d1 \o << <<Fence, "mermaid">> >> \o d2
              \o << <<Fence>> >> : d1 \in ChatDiagrams, d2 \in ChatDiagrams}

Init ==
    /\ VIdle /\ AIdle /\ IIdle
    /\ currentDiagram = DEFAULT_DIAGRAM
    /\ editorState = createInitialEditorState
    /\ messages = << >>
    /\ isLoading = FALSE
    /\ error = "<undefined>"
    /\ currentInput = << >>
    /\ apiKey \in {[hasKey |-> h, isValid |-> "undefined"] : h \in BOOLEAN}
    /\ inflight = {}
    /\ lastChat = NoResult
    /\ lastWrite = NoResult
    /\ lastSend = NoResult
    /\ DIdle
    /\ currentId = 1
    /\ validationResult = NoResult
    /\ savedDiagrams = << >>
    /\ storage = << >>
    /\ lastDelete = NoResult

\* useDiagram.updateContent: the user edits the text; the debounced validation
\* it schedules ends in SetValidationResult
UpdateContent ==
    \E content \in EditTexts :
        /\ currentDiagram' = updateDiagramContent(currentDiagram, editorState, content)[1]
        /\ editorState' = updateDiagramContent(currentDiagram, editorState, content)[2]
        /\ lastWrite' = IF currentDiagram # NoText
                        THEN [content |-> content, by |-> "editor", overEdit |-> FALSE]
                        ELSE lastWrite
        /\ UNCHANGED <<messages, isLoading, error, currentInput, apiKey, inflight, lastChat,
                       vvars, avars, ivars, dvars, svars, lastSend>>

\* useDiagram.validateDiagram once its debounce and the validation service
\* have settled: setValidationResult with the verdict isValid
SetValidationResult ==
    \E isValid \in BOOLEAN :
        /\ validationResult' = [isValid |-> isValid]
        /\ editorState' = ValidatedEditor(editorState, [isValid |-> isValid])
        /\ UNCHANGED <<currentDiagram, messages, isLoading, error, currentInput, apiKey,
                       inflight, lastChat, lastWrite, lastSend, vvars, avars, ivars, dvars,
                       currentId, savedDiagrams, storage, lastDelete>>

\* diagram store, setCurrentDiagram(null)
SetCurrentDiagramNull ==
    /\ currentDiagram # NoText
    /\ currentDiagram' = NoText
    /\ currentId' = 0
    /\ UNCHANGED <<editorState, messages, isLoading, error, currentInput, apiKey, inflight,
                   lastChat, lastWrite, lastSend, vvars, avars, ivars, dvars,
                   validationResult, savedDiagrams, storage, lastDelete>>

\* the ids of the open diagram and of the saved ones
UsedIds == {currentId} \cup IdsIn(savedDiagrams) \cup IdsIn(storage)

\* diagram store, createNewDiagram
CreateNewDiagram ==
    /\ generateId(UsedIds) # 0
    /\ currentId' = generateId(UsedIds)
    /\ currentDiagram' = DEFAULT_DIAGRAM
    /\ editorState' = createInitialEditorState
    /\ lastWrite' = NoResult
    /\ UNCHANGED <<messages, isLoading, error, currentInput, apiKey, inflight, lastChat,
                   lastSend, vvars, avars, ivars, dvars,
                   validationResult, savedDiagrams, storage, lastDelete>>

\* settings store, setApiKey / validateApiKey / clearApiKey
SetApiKey ==
    /\ apiKey' = [hasKey |-> TRUE, isValid |-> "undefined"]
    /\ UNCHANGED <<currentDiagram, editorState, messages, isLoading, error, currentInput,
                   inflight, lastChat, lastWrite, vvars, avars, ivars, dvars, svars, lastSend>>

ValidateApiKey ==
    /\ \E isValidFormat \in {"true", "false"} :
          apiKey' = IF apiKey.hasKey THEN [hasKey |-> TRUE, isValid |-> isValidFormat]
                    ELSE [hasKey |-> FALSE, isValid |-> "false"]
    /\ UNCHANGED <<currentDiagram, editorState, messages, isLoading, error, currentInput,
                   inflight, lastChat, lastWrite, vvars, avars, ivars, dvars, svars, lastSend>>

ClearApiKey ==
    /\ apiKey' = INITIAL_API_KEY_STATE
    /\ UNCHANGED <<currentDiagram, editorState, messages, isLoading, error, currentInput,
                   inflight, lastChat, lastWrite, vvars, avars, ivars, dvars, svars, lastSend>>

\* the data of the chat store
ChatStore ==
    [messages |-> messages, isLoading |-> isLoading, error |-> error,
     currentInput |-> currentInput]

\* the chat store takes the data chat
SetChatStore(chat) ==
    /\ messages' = chat.messages
    /\ isLoading' = chat.isLoading
    /\ error' = chat.error
    /\ currentInput' = chat.currentInput

\* a number no request in flight bears
FreshRequest == SetMin({i \in 1..(Cardinality(inflight) + 1) : \A r \in inflight : r.id # i})

\* useChat.sendMessage up to its await: addMessage('user'), setCurrentInput(''),
\* setLoading(true), setError(null), and the request with the diagram of the
\* render the callback belongs to
SendMessage ==
    \E m \in ChatPrompts :
        /\ IF IsBlank(m) \/ ~isChatAvailable
           THEN UNCHANGED <<messages, isLoading, error, currentInput, inflight>>
           ELSE /\ Len(messages) + 2 * (Cardinality(inflight) + 1) <= MaxMessages
                /\ SetChatStore(SendStart(ChatStore, <<Trim(m)>>))
                /\ inflight' = inflight \cup
                      {[id |-> FreshRequest, message |-> Trim(m),
                        currentDiagram |-> currentDiagram]}
        /\ lastSend' = [kind |-> "send", message |-> m]
        /\ UNCHANGED <<currentDiagram, editorState, apiKey, lastChat, lastWrite,
                       vvars, avars, ivars, dvars, svars>>

\* useChat.retryLastFailedMessage: retryLastMessage, then sendMessage with the
\* content of the last user message, up to its await
RetryLastFailedMessage ==
    /\ getLastUserMessage(messages) # NoResult
    /\ LET content == getLastUserMessage(messages).content
           retried == retryLastMessage(ChatStore)
       IN  /\ IF IsBlank(content[1]) \/ ~isChatAvailable
              THEN /\ SetChatStore(retried)
                   /\ UNCHANGED inflight
              ELSE /\ LastUserIndex(messages) + 2 * (Cardinality(inflight) + 1)
                         <= MaxMessages
                   /\ SetChatStore(SendStart(retried, <<Trim(content[1])>>))
                   /\ inflight' = inflight \cup
                         {[id |-> FreshRequest, message |-> Trim(content[1]),
                           currentDiagram |-> currentDiagram]}
           /\ lastSend' = [kind |-> "retry", message |-> content[1]]
    /\ UNCHANGED <<currentDiagram, editorState, apiKey, lastChat, lastWrite,
                   vvars, avars, ivars, dvars, svars>>

\* useChat.startNewConversation: clearMessages, setError(null)
StartNewConversation ==
    /\ SetChatStore(setError(clearMessages(ChatStore), "<null>"))
    /\ lastSend' = [kind |-> "clear", message |-> << >>]
    /\ UNCHANGED <<currentDiagram, editorState, apiKey, inflight, lastChat, lastWrite,
                   vvars, avars, ivars, dvars, svars>>

\* the rest of sendMessage for request r once processChat has returned response
Deliver(r, response) ==
    LET failed == response.error # ""
        apply == ~failed /\ Truthy(response.updatedDiagram) /\ r.currentDiagram # NoText
        store == IF apply
                 THEN updateDiagramContent(currentDiagram, editorState, response.updatedDiagram)
                 ELSE <<currentDiagram, editorState>>
        chat == SendEnd(ChatStore, response)
    IN  /\ SetChatStore(chat)
        /\ currentDiagram' = store[1]
        /\ editorState' = store[2]
        /\ inflight' = inflight \ {r}
        /\ lastChat' = [updatedDiagram |-> response.updatedDiagram,
                        validated |-> response.validated,
                        validationResult |-> response.validationResult,
                        applied |-> apply /\ currentDiagram # NoText,
                        error |-> response.error]
        /\ lastWrite' = IF apply /\ currentDiagram # NoText
                        THEN [content |-> response.updatedDiagram, by |-> "chat",
                              overEdit |-> /\ lastWrite # NoResult
                                           /\ lastWrite.by = "editor"
                                           /\ currentDiagram # r.currentDiagram]
                        ELSE lastWrite
        /\ UNCHANGED <<apiKey, lastSend, vvars, avars, ivars, dvars, svars>>

\* the language model answers the request of r
ModelReply ==
    \E r \in inflight : \E content \in Replies :
        Deliver(r, processChat(r.message, r.currentDiagram,
                               [failed |-> FALSE, content |-> content, error |-> ""]))

\* the call of the language model for r fails
ModelFail ==
    \E r \in inflight :
        Deliver(r, processChat(r.message, r.currentDiagram,
                               [failed |-> TRUE, content |-> NoText, error |-> "Request failed"]))

Next ==
    \/ UpdateContent
    \/ SetValidationResult
    \/ SetCurrentDiagramNull
    \/ CreateNewDiagram
    \/ SetApiKey
    \/ ValidateApiKey
    \/ ClearApiKey
    \/ SendMessage
    \/ ModelReply
    \/ ModelFail

Spec == Init /\ [][Next]_vars


(***************************************************************************)
(* SpecChat: the chat panel alone.  The user sets and validates the API    *)
(* key, sends messages, retries the last one and starts new conversations  *)
(* while the requests of sendMessage are answered or fail.                 *)
(***************************************************************************)
NextChat ==
    \/ SetApiKey
    \/ ValidateApiKey
    \/ ClearApiKey
    \/ SendMessage
    \/ RetryLastFailedMessage
    \/ StartNewConversation
    \/ ModelReply
    \/ ModelFail

SpecChat == Init /\ [][NextChat]_vars

(***************************************************************************)
(* SpecDebounce: one function made by debounceAsync(func, wait), called up *)
(* to MaxCalls times; each timer fires unless it is cleared, timers fire   *)
(* in the order they were set (they share wait), and each invocation of    *)
(* func resolves or throws.                                                *)
(***************************************************************************)
InitDebounce == VIdle /\ AIdle /\ IIdle /\ CIdle /\ DIdle /\ SIdle

\* debouncedFunction(args) is called
DebouncedCall ==
    \E args \in DebounceArgs :
        /\ Len(calls) < MaxCalls
        /\ calls' = debouncedFunction(calls, timeout, latestReject, args)
        /\ latestResolve' = Len(calls) + 1
        /\ latestReject' = Len(calls) + 1
        /\ timeout' = Len(calls) + 1
        /\ UNCHANGED <<vvars, avars, ivars, cvars, svars>>

\* the timer of call k fires: func(...args) is invoked
TimerFires ==
    \E k \in 1..Len(calls) :
        /\ calls[k].timer = "armed"
        /\ \A j \in 1..(k - 1) : calls[j].timer # "armed"
        /\ calls' = [calls EXCEPT ![k].timer = "fired", ![k].func = "running",
                                  ![k].firedAt = Len(calls)]
        /\ UNCHANGED <<timeout, latestResolve, latestReject, vvars, avars, ivars, cvars, svars>>

\* func for call k settles (ok: it resolved; otherwise it threw), then finally
FuncReturns ==
    \E k \in 1..Len(calls) : \E ok \in BOOLEAN :
        /\ calls[k].func = "running"
        /\ calls' = FuncSettled(calls, k, latestResolve, latestReject, ok)
        /\ timeout' = 0
        /\ latestResolve' = 0
        /\ latestReject' = 0
        /\ UNCHANGED <<vvars, avars, ivars, cvars, svars>>

NextDebounce == DebouncedCall \/ TimerFires \/ FuncReturns

SpecDebounce == InitDebounce /\ [][NextDebounce]_vars

(***************************************************************************)
(* SpecStore: the diagram store.  The diagram is edited, validated,        *)
(* replaced, saved to storage, loaded from it and deleted from it; a write *)
(* to storage succeeds or fails (setToStorage returns false).              *)
(***************************************************************************)
StoreTexts == EditTexts \cup {DEFAULT_DIAGRAM}

CursorPositions == {0, 1}

\* storage holds nothing, or one diagram an earlier session saved
InitStore ==
    /\ VIdle /\ AIdle /\ IIdle /\ DIdle
    /\ currentDiagram = DEFAULT_DIAGRAM
    /\ currentId = 1
    /\ editorState = createInitialEditorState
    /\ messages = << >> /\ isLoading = FALSE /\ error = "<undefined>"
    /\ currentInput = << >> /\ apiKey = INITIAL_API_KEY_STATE
    /\ inflight = {} /\ lastChat = NoResult /\ lastWrite = NoResult /\ lastSend = NoResult
    /\ validationResult = NoResult
    /\ savedDiagrams = << >>
    /\ storage \in {<< >>} \cup {<<Diagram(2, content)>> : content \in EditTexts}
    /\ lastDelete = NoResult

\* what the chat panel, the settings and the text functions hold
StoreFrame == <<messages, isLoading, error, currentInput, apiKey, inflight, lastChat,
                lastSend, vvars, avars, ivars, dvars>>

\* diagram store, setCurrentDiagram(diagram) with a diagram
SetCurrentDiagram ==
    \E id \in DiagramIds : \E content \in StoreTexts :
        /\ currentId' = id
        /\ currentDiagram' = content
        /\ editorState' = EditorOf(content)
        /\ lastWrite' = NoResult
        /\ UNCHANGED <<StoreFrame, validationResult, savedDiagrams, storage, lastDelete>>

\* useDiagram.updateCursorPosition: setEditorState({ cursorPosition })
SetEditorState ==
    \E position \in CursorPositions :
        /\ editorState' = [editorState EXCEPT !.cursorPosition = position]
        /\ UNCHANGED <<StoreFrame, currentDiagram, currentId, lastWrite, validationResult,
                       savedDiagrams, storage, lastDelete>>

\* diagram store, saveDiagramToStorage; ok: setToStorage succeeded
SaveDiagramToStorage ==
    \E ok \in BOOLEAN :
        /\ currentDiagram # NoText
        /\ Len(saveDiagram(storage, Diagram(currentId, currentDiagram))) <= MaxSaved
        /\ storage' = IF ok THEN saveDiagram(storage, Diagram(currentId, currentDiagram))
                      ELSE storage
        /\ savedDiagrams' = IF ok THEN saveDiagram(storage, Diagram(currentId, currentDiagram))
                            ELSE savedDiagrams
        /\ UNCHANGED <<StoreFrame, currentDiagram, currentId, editorState, lastWrite,
                       validationResult, lastDelete>>

\* diagram store, loadSavedDiagrams
LoadSavedDiagrams ==
    /\ savedDiagrams' = storage
    /\ UNCHANGED <<StoreFrame, currentDiagram, currentId, editorState, lastWrite,
                   validationResult, storage, lastDelete>>

\* diagram store, loadDiagram(id)
LoadDiagram ==
    \E id \in DiagramIds :
        /\ IF getDiagramById(storage, id) # NoResult
           THEN /\ currentId' = id
                /\ currentDiagram' = getDiagramById(storage, id).content
                /\ editorState' = EditorOf(getDiagramById(storage, id).content)
                /\ lastWrite' = NoResult
           ELSE UNCHANGED <<currentId, currentDiagram, editorState, lastWrite>>
        /\ UNCHANGED <<StoreFrame, validationResult, savedDiagrams, storage, lastDelete>>

\* diagram store, deleteDiagramFromStorage(id); ok: setToStorage succeeded
DeleteDiagramFromStorage ==
    \E id \in DiagramIds : \E ok \in BOOLEAN :
        /\ (ok /\ currentId = id) => generateId(UsedIds) # 0
        /\ storage' = IF ok THEN deleteDiagram(storage, id) ELSE storage
        /\ savedDiagrams' = IF ok THEN WithoutId(savedDiagrams, id) ELSE savedDiagrams
        /\ IF ok /\ currentId = id
           THEN /\ currentId' = generateId(UsedIds)
                /\ currentDiagram' = DEFAULT_DIAGRAM
                /\ editorState' = createInitialEditorState
                /\ lastWrite' = NoResult
           ELSE UNCHANGED <<currentId, currentDiagram, editorState, lastWrite>>
        /\ lastDelete' = [id |-> id, success |-> ok, open |-> currentId = id]
        /\ UNCHANGED <<StoreFrame, validationResult>>

\* diagram store, resetEditor
ResetEditor ==
    /\ generateId(UsedIds) # 0
    /\ currentId' = generateId(UsedIds)
    /\ currentDiagram' = DEFAULT_DIAGRAM
    /\ editorState' = createInitialEditorState
    /\ validationResult' = NoResult
    /\ lastWrite' = NoResult
    /\ UNCHANGED <<StoreFrame, savedDiagrams, storage, lastDelete>>

NextStore ==
    \/ SetCurrentDiagram
    \/ SetCurrentDiagramNull
    \/ UpdateContent
    \/ SetEditorState
    \/ SetValidationResult
    \/ CreateNewDiagram
    \/ SaveDiagramToStorage
    \/ LoadSavedDiagrams
    \/ LoadDiagram
    \/ DeleteDiagramFromStorage
    \/ ResetEditor

SpecStore == InitStore /\ [][NextStore]_vars

(***************************************************************************)
(* Properties.                                                             *)
(***************************************************************************)
ExampleFlow == <<<<"f","l","o","w","c","h","a","r","t"," ","T","D">>, <<"A","[","S","t","a","r","t","]"," ","-","-",">"," ","B","[","E","n","d","]">>>>

\* C1: a diagram proposed by the language model replaces the editor content
\* through updateDiagramContent only if that same text was passed to
\* validateMermaidSyntax and the result had isValid = true.
C1_AppliedOnlyIfValidated ==
    (lastChat # NoResult /\ lastChat.applied) =>
        /\ lastChat.validated = lastChat.updatedDiagram
        /\ lastChat.validationResult # NoResult
        /\ lastChat.validationResult.isValid

\* C2: for every text, validateMermaidSyntax returns isValid = true if and
\* only if its errors list is empty, whatever the warnings and suggestions.
C2_IsValidIffNoErrors ==
    vres # NoResult => (vres.isValid <=> vres.errors = << >>)

\* a text was validated, found valid, and has both warnings and suggestions
C2_Witness ==
    /\ vres # NoResult
    /\ vres.isValid
    /\ vres.warnings # << >>
    /\ vres.suggestions # << >>

\* C3: in every model analyzeDiagram returns, the ids of structure.nodes are
\* pairwise distinct and nodeCount is the number of distinct ids.
C3_NodeIdsDistinct ==
    apc = "done" =>
        LET nodes == ares.structure.nodes
        IN  /\ \A i, j \in 1..Len(nodes) : i # j => nodes[i].id # nodes[j].id
            /\ ares.nodeCount = Cardinality({nodes[i].id : i \in 1..Len(nodes)})

\* the ids the lines of the analyzed text declare on a line of their own
DeclaredIds ==
    IF atype \in FlowTypes
    THEN {NodeMatch(alines[i]).id : i \in {k \in 2..Len(alines) : NodeMatch(alines[k]).ok}}
    ELSE IF atype = <<"s","e","q","u","e","n","c","e","D","i","a","g","r","a","m">>
    THEN {ParticipantMatch(alines[i]).id :
             i \in {k \in 2..Len(alines) : ParticipantMatch(alines[k]).ok}}
    ELSE IF atype = <<"c","l","a","s","s","D","i","a","g","r","a","m">>
    THEN {ClassMatch(alines[i]).id : i \in {k \in 2..Len(alines) : ClassMatch(alines[k]).ok}}
    ELSE {}

\* the number of nodes pushed so far with the id
Occurrences(id) == Cardinality({n \in 1..Len(anodes) : anodes[n].id = id})

\* C4: at every point of the loop of an analyze* function both endpoints of
\* every connection pushed so far are ids of nodes pushed so far (the node of
\* an endpoint is pushed no later than the connection), and in the model
\* returned an id that connection lines refer to and no line declares occurs
\* in the node list exactly once.
C4_ReferencedNodesExist ==
    /\ \A c \in 1..Len(aconns) : Occurrences(aconns[c].from) >= 1 /\ Occurrences(aconns[c].to) >= 1
    /\ apc = "done" /\ atype \in LoopTypes =>
          /\ ares.structure.nodes = anodes
          /\ ares.structure.connections = aconns
          /\ \A c \in 1..Len(aconns) :
                /\ aconns[c].from \notin DeclaredIds => Occurrences(aconns[c].from) = 1
                /\ aconns[c].to \notin DeclaredIds => Occurrences(aconns[c].to) = 1

\* a model was returned in which two connections refer to an id no line declares
C4_Witness ==
    /\ apc = "done"
    /\ atype \in LoopTypes
    /\ \E c, d \in 1..Len(aconns) :
          /\ c # d
          /\ aconns[c].from \in {aconns[d].from, aconns[d].to}
          /\ aconns[c].from \notin DeclaredIds

\* C5: for 'flowchart TD' / 'A[Start] --> B[End]' analyzeDiagram returns
\* exactly the nodes A (label Start, process) and B (label End, process),
\* one connection from A to B of kind arrow, direction TD, complexity simple.
C5_ExampleAnalysis ==
    (apc = "done" /\ diagram = ExampleFlow) =>
        LET nodes == ares.structure.nodes
            connections == ares.structure.connections
        IN  /\ ares.nodeCount = 2
            /\ Len(nodes) = 2
            /\ nodes[1].id = <<"A">> /\ nodes[1].label = <<<<"S","t","a","r","t">>>> /\ nodes[1].type = "process"
            /\ nodes[2].id = <<"B">> /\ nodes[2].label = <<<<"E","n","d">>>> /\ nodes[2].type = "process"
            /\ ares.connectionCount = 1
            /\ Len(connections) = 1
            /\ connections[1].from = <<"A">> /\ connections[1].to = <<"B">>
            /\ connections[1].type = "arrow"
            /\ ares.structure.direction = <<<<"T","D">>>>
            /\ ares.complexity = "simple"

\* C6: for 'flowchart TD' / 'A[Start] --> B[End]' validateMermaidSyntax
\* returns isValid = true, no errors and no warnings.
C6_ExampleValidation ==
    (vres # NoResult /\ diagram = ExampleFlow) =>
        /\ vres.isValid
        /\ vres.errors = << >>
        /\ vres.warnings = << >>

\* the validated text is a flow text whose body is one node declaration, of
\* whatever shape and without an arrow, among blank lines, comments and
\* direction lines
OneNodeFlow ==
    /\ ~IsBlankText(diagram)
    /\ Trim(diagram[1]) \in {<<"f","l","o","w","c","h","a","r","t"," ","T","D">>, <<"g","r","a","p","h"," ","L","R">>}
    /\ \E i \in 2..Len(diagram) :
          /\ NodeMatch(Trim(diagram[i])).ok
          /\ ~Includes(diagram[i], <<"-","-">>)
          /\ \A k \in (2..Len(diagram)) \ {i} :
                \/ Skipped(Trim(diagram[k]))
                \/ DirectionMatch(Trim(diagram[k]))

\* C7: for a flow text whose body holds exactly one node declaration and no
\* connection line validateMermaidSyntax returns zero errors and at least
\* one warning.
C7_OneNodeWarned ==
    (vres # NoResult /\ OneNodeFlow) => (vres.errors = << >> /\ vres.warnings # << >>)

\* the prompt, lower-cased, holds a create keyword
HasCreateKeyword == HasAny(ToLowerCase(prompt), CreateWords)

\* the current diagram is blank: !currentDiagram.trim()
BlankDiagram == \A i \in 1..Len(diagram) : \A k \in 1..Len(diagram[i]) : diagram[i][k] \in {" ", "\t"}

\* C8: with a non-blank current diagram analyzeIntent never returns unknown:
\* without a create keyword the prompt is modify with confidence 0.8 (so
\* explain, help and export need a blank diagram), with one it is create;
\* with a blank diagram a prompt holding 'diagram' is create.
C8_NonBlankDefaultsToModify ==
    ires # NoResult =>
        /\ ~BlankDiagram => ires.intent # "unknown"
        /\ (~BlankDiagram /\ ~HasCreateKeyword) => (ires.intent = "modify" /\ ires.confidence = 8)
        /\ (~BlankDiagram /\ HasCreateKeyword) => ires.intent = "create"
        /\ ires.intent \in {"explain", "help", "export"} => BlankDiagram
        /\ (BlankDiagram /\ Includes(ToLowerCase(prompt), <<"d","i","a","g","r","a","m">>)) => ires.intent = "create"
        /\ (prompt = <<"a","d","d"," ","a"," ","n","e","w"," ","s","t","e","p">> /\ diagram = <<<<"f","l","o","w","c","h","a","r","t"," ","T","D">>, <<"A","-","-",">","B">>>>) =>
              (ires.intent = "modify" /\ ires.confidence = 8)

\* a prompt without any keyword was classified against a non-blank diagram
C8_Witness ==
    /\ ires # NoResult
    /\ prompt = <<"h","e","l","l","o">>
    /\ diagram = <<<<"f","l","o","w","c","h","a","r","t"," ","T","D">>, <<"A","-","-",">","B">>>>
    /\ ires.intent = "modify"

\* the confidence (in tenths) of each intent
ConfidenceOf ==
    [i \in {"create", "modify", "explain", "help", "export", "unknown"} |->
        CASE i = "create" -> 9
          [] i = "modify" -> 8
          [] i = "explain" -> 7
          [] i = "help" -> 8
          [] i = "export" -> 9
          [] i = "unknown" -> 1]

\* the first branch, in the order create, modify, explain, help, export,
\* whose keyword set (or diagram condition) the lower-cased prompt meets
FirstBranch ==
    LET lowerPrompt == ToLowerCase(prompt)
    IN  IF HasCreateKeyword \/ (BlankDiagram /\ Includes(lowerPrompt, <<"d","i","a","g","r","a","m">>)) THEN "create"
        ELSE IF HasAny(lowerPrompt, ModifyWords) \/ ~BlankDiagram THEN "modify"
        ELSE IF HasAny(lowerPrompt, ExplainWords) THEN "explain"
        ELSE IF HasAny(lowerPrompt, HelpWords) THEN "help"
        ELSE IF HasAny(lowerPrompt, ExportWords) THEN "export"
        ELSE "unknown"

\* C9: analyzeIntent returns the first branch that matches in the order
\* create, modify, explain, help, export, else unknown, and the confidence
\* is a function of the intent alone: 0.9, 0.8, 0.7, 0.8, 0.9, 0.1.
C9_PriorityAndConfidence ==
    ires # NoResult =>
        /\ ires.intent = FirstBranch
        /\ ires.confidence = ConfidenceOf[ires.intent]
        /\ (HasCreateKeyword /\ HasAny(ToLowerCase(prompt), ModifyWords)) => ires.intent = "create"
        /\ (prompt = <<"e","x","p","l","a","i","n"," ","t","h","e"," ","e","x","p","o","r","t">> /\ BlankDiagram) => ires.intent = "explain"

\* a prompt with a create and a modify keyword was classified against a
\* non-blank diagram
C9_Witness ==
    /\ ires # NoResult
    /\ prompt = <<"m","a","k","e"," ","a","n","d"," ","a","d","d">>
    /\ ~BlankDiagram
    /\ ires.intent = "create"
    /\ ires.confidence = 9

\* C10: for a text that is empty or only whitespace validateMermaidSyntax
\* returns isValid = false, exactly the error 'Diagram is empty' (semantic),
\* no warning and exactly one suggestion.
C10_EmptyDiagram ==
    (vres # NoResult /\ BlankDiagram) =>
        /\ ~vres.isValid
        /\ vres.errors = <<[line |-> 0, message |-> "Diagram is empty", type |-> "semantic"]>>
        /\ vres.warnings = << >>
        /\ Len(vres.suggestions) = 1

\* a text of several lines holding only blanks and tabs was validated
C10_Witness ==
    /\ vres # NoResult
    /\ BlankDiagram
    /\ Len(diagram) >= 2
    /\ \E i \in 1..Len(diagram) : diagram[i] # << >>

\* the error validateMermaidSyntax pushes when no type keyword starts the line
MissingType == Finding(1, "Invalid or missing diagram type", "syntax")

\* C11: for every non-blank text, validateMermaidSyntax adds the 'Invalid or
\* missing diagram type' error if and only if analyzeDiagram reports the type
\* unknown (both take the type from the first non-blank line), so blank lines
\* before the declaration line do not make the validator report a missing type.
C11_SameTypeSource ==
    (vres # NoResult /\ ~IsBlankText(diagram)) =>
        ((\E e \in 1..Len(vres.errors) : vres.errors[e] = MissingType)
            <=> extractDiagramType(TrimmedLines(diagram)[1]) = Unknown)

\* C12: the diagram text is last-write-wins: editorState.content, and
\* currentDiagram.content while a diagram is open, equal the argument of the
\* most recent updateDiagramContent call made on the open diagram, whether the
\* editor or a chat response made it; a chat response that arrives after a
\* newer edit made while its request was in flight overwrites that edit.
C12_LastWriteWins ==
    lastWrite # NoResult =>
        /\ editorState.content = lastWrite.content
        /\ currentDiagram # NoText => currentDiagram = lastWrite.content

\* a chat response was applied over an edit made while its request was in
\* flight, and its diagram is the content of the editor
C12_Witness ==
    /\ lastWrite # NoResult
    /\ lastWrite.by = "chat"
    /\ lastWrite.overEdit
    /\ lastChat # NoResult
    /\ lastChat.applied
    /\ editorState.content = lastChat.updatedDiagram
    /\ currentDiagram = lastChat.updatedDiagram

\* the type the validator takes from the first line
DeclaredType == DiagramTypeOf(diagram)

\* line i of the validated text, trimmed, is a body line that is neither
\* blank nor a comment
BodyLine(i) == i \in 2..Len(diagram) /\ ~Skipped(Trim(diagram[i]))

\* a body line the validator recognises as an element of the declared type:
\* a node or a connection between nodes, a participant or a message, a class
\* or a relationship, a transition or a state
ElementLine(i) ==
    LET line == Trim(diagram[i])
    IN  /\ BodyLine(i)
        /\ CASE DeclaredType \in FlowTypes ->
                   NodeMatch(line).ok \/ RelMatch(line, FlowArrowsV, FALSE).ok
             [] DeclaredType = <<"s","e","q","u","e","n","c","e","D","i","a","g","r","a","m">> ->
                   StartsWith(line, <<"p","a","r","t","i","c","i","p","a","n","t"," ">>) \/ RelMatch(line, SeqArrows, TRUE).ok
             [] DeclaredType = <<"c","l","a","s","s","D","i","a","g","r","a","m">> ->
                   \/ StartsWith(line, <<"c","l","a","s","s"," ">>) /\ SecondWord(line) # << >>
                   \/ RelMatch(line, ClassArrowsV, FALSE).ok
             [] DeclaredType = <<"s","t","a","t","e","D","i","a","g","r","a","m">> ->
                   \/ RelMatch(line, StateArrows, FALSE).ok
                   \/ Includes(line, <<":">>) /\ BeforeColon(line) # << >>
             [] OTHER -> FALSE

\* the semantic error that names the missing element kind of the declared type
MissingElements ==
    CASE DeclaredType \in FlowTypes -> "No nodes found in flowchart"
      [] DeclaredType = <<"s","e","q","u","e","n","c","e","D","i","a","g","r","a","m">> -> "No participants found in sequence diagram"
      [] DeclaredType = <<"c","l","a","s","s","D","i","a","g","r","a","m">> -> "No classes found in class diagram"
      [] DeclaredType = <<"s","t","a","t","e","D","i","a","g","r","a","m">> -> "No states found in state diagram"
      [] OTHER -> "none"

SemanticErrors == {e \in 1..Len(vres.errors) : vres.errors[e].type = "semantic"}

\* C13: for a text whose first line declares flowchart / graph,
\* sequenceDiagram, classDiagram or stateDiagram and whose body holds no line
\* recognised as an element of that type, validateMermaidSyntax returns
\* isValid = false with exactly one semantic error, the one that names the
\* missing element kind.
C13_NoElementsIsError ==
    (/\ vres # NoResult
     /\ ~IsBlankText(diagram)
     /\ DeclaredType \in LoopTypes
     /\ \A i \in 1..Len(diagram) : ~ElementLine(i)) =>
        /\ ~vres.isValid
        /\ Cardinality(SemanticErrors) = 1
        /\ \A e \in SemanticErrors : vres.errors[e] = Finding(0, MissingElements, "semantic")

\* a sequence text whose body holds lines, none of them a participant or a
\* message, was validated
C13_Witness ==
    /\ vres # NoResult
    /\ DeclaredType = <<"s","e","q","u","e","n","c","e","D","i","a","g","r","a","m">>
    /\ \E i \in 1..Len(diagram) : BodyLine(i)
    /\ \A i \in 1..Len(diagram) : ~ElementLine(i)
    /\ ~vres.isValid

\* a body line of a flow text that is neither a node declaration, nor a
\* connection, nor a bare direction token
UnknownLine(i) ==
    /\ BodyLine(i)
    /\ ~ElementLine(i)
    /\ Trim(diagram[i]) \notin {<<"T","D">>, <<"T","B">>, <<"B","T">>, <<"R","L">>, <<"L","R">>}

\* the 'potentially invalid syntax' warnings that carry line number i
InvalidSyntaxWarnings(i) ==
    {w \in 1..Len(vres.warnings) :
        vres.warnings[w] = Finding(i, "Potentially invalid syntax", "style")}

\* every line of the text has as many opening as closing brackets of each kind
Balanced ==
    \A i \in 1..Len(diagram) : \A b \in 1..Len(Brackets) :
        CountChar(diagram[i], Brackets[b][1]) = CountChar(diagram[i], Brackets[b][2])

\* C14: in a flow text every non-blank, non-comment body line that is neither
\* a node declaration, nor a connection, nor a bare direction token adds
\* exactly one style warning with its 1-based line number (other lines add
\* none) and no error: with at least one recognised node and balanced
\* brackets on every line the result is valid, however many such lines.
C14_UnknownLinesOnlyWarn ==
    (vres # NoResult /\ ~IsBlankText(diagram) /\ DeclaredType \in FlowTypes) =>
        /\ \A i \in 1..Len(diagram) :
              Cardinality(InvalidSyntaxWarnings(i)) = IF UnknownLine(i) THEN 1 ELSE 0
        /\ \A w \in 1..Len(vres.warnings) :
              vres.warnings[w].message = "Potentially invalid syntax" =>
                  vres.warnings[w].line \in 2..Len(diagram)
        /\ ((\E i \in 1..Len(diagram) : ElementLine(i)) /\ Balanced) =>
              (vres.isValid /\ vres.errors = << >>)

\* a flow text with a node and three or more lines of no known pattern was
\* validated and found valid
C14_Witness ==
    /\ vres # NoResult
    /\ DeclaredType \in FlowTypes
    /\ Cardinality({i \in 1..Len(diagram) : UnknownLine(i)}) >= 3
    /\ \E i \in 1..Len(diagram) : ElementLine(i)
    /\ vres.isValid
    /\ Len(vres.warnings) >= 3

\* the entries of errors that are the missing-type error
MissingTypeErrors == {e \in 1..Len(vres.errors) : vres.errors[e] = MissingType}

\* the bracket pairs of line i that do not balance
Unbalanced(i) ==
    {b \in 1..Len(Brackets) :
        CountChar(diagram[i], Brackets[b][1]) # CountChar(diagram[i], Brackets[b][2])}

\* the findings validateGeneral reports for line i
BracketErrorsOf(i) ==
    {e \in 1..Len(vres.errors) :
        \E b \in 1..Len(Brackets) : vres.errors[e] = Finding(i, BracketMessage[b], "syntax")}

LongLineWarnings(i) ==
    {w \in 1..Len(vres.warnings) :
        vres.warnings[w] =
            Finding(i, "Very long line - consider breaking it up for readability", "style")}

EmptyWarnings ==
    {w \in 1..Len(vres.warnings) :
        vres.warnings[w] = Finding(0, "Diagram appears to be empty", "style")}

\* C15: when the first line of a non-blank text starts with no accepted type
\* keyword, the type check adds exactly one error, a syntax error with
\* line = 1 that is the first entry of errors, and the body is still
\* validated: the generic content check runs, and the bracket-balance and
\* line-length checks report their findings for every line of the text.
C15_MissingTypeKeepsValidating ==
    (vres # NoResult /\ ~IsBlankText(diagram) /\ DeclaredType = << >>) =>
        /\ Cardinality(MissingTypeErrors) = 1
        /\ vres.errors[1] = MissingType
        /\ ~vres.isValid
        /\ \A i \in 1..Len(diagram) :
              /\ Cardinality(BracketErrorsOf(i)) = Cardinality(Unbalanced(i))
              /\ \A b \in Unbalanced(i) :
                    \E e \in 2..Len(vres.errors) :
                        vres.errors[e] = Finding(i, BracketMessage[b], "syntax")
              /\ Cardinality(LongLineWarnings(i)) = IF Len(diagram[i]) > LongLine THEN 1 ELSE 0
        /\ Cardinality(EmptyWarnings) =
              IF \E i \in 1..Len(diagram) : BodyLine(i) THEN 0 ELSE 1

\* a text without a type keyword was validated and the result holds, after
\* the missing-type error, a bracket error and a long-line warning of later
\* lines
C15_Witness ==
    /\ vres # NoResult
    /\ DeclaredType = << >>
    /\ ~IsBlankText(diagram)
    /\ vres.errors[1] = MissingType
    /\ \E i \in 2..Len(diagram) : BracketErrorsOf(i) # {}
    /\ \E i \in 2..Len(diagram) : LongLineWarnings(i) # {}

\* the entries of errors that report an unbalanced bracket pair
BracketErrorEntries ==
    {e \in 1..Len(vres.errors) :
        \E b \in 1..Len(Brackets) : vres.errors[e].message = BracketMessage[b]}

\* C16: in the errors list of validateMermaidSyntax the missing-type error,
\* if present, comes first and so precedes every semantic error of the
\* type-specific check, every type-specific error precedes every
\* bracket-imbalance error, and the bracket-imbalance errors are in
\* non-decreasing order of their line number.
C16_ErrorOrder ==
    (vres # NoResult /\ ~IsBlankText(diagram)) =>
        /\ MissingTypeErrors \subseteq {1}
        /\ \A m \in MissingTypeErrors : \A s \in SemanticErrors : m < s
        /\ \A s \in SemanticErrors : \A b \in BracketErrorEntries : s < b
        /\ \A b1, b2 \in BracketErrorEntries :
              b1 < b2 => vres.errors[b1].line <= vres.errors[b2].line

\* a text was validated whose errors are a type-specific semantic error and
\* bracket errors of two different lines
C16_Witness ==
    /\ vres # NoResult
    /\ ~IsBlankText(diagram)
    /\ SemanticErrors # {}
    /\ \E b1, b2 \in BracketErrorEntries : vres.errors[b1].line < vres.errors[b2].line

\* the lines analyzeDiagram works on: the non-blank lines, trimmed; the first
\* is the declaration line, the others are the body
Body == {k \in 2..Len(TrimmedLines(diagram)) : ~IsComment(TrimmedLines(diagram)[k])}

\* the body lines that declare a participant / that are a message
ParticipantLines == {k \in Body : StartsWith(TrimmedLines(diagram)[k], <<"p","a","r","t","i","c","i","p","a","n","t"," ">>)}
MessageLines == {k \in Body : RelMatch(TrimmedLines(diagram)[k], SeqArrows, TRUE).ok}

\* the participants the text declares: the ids of its participant lines
DeclaredParticipants == {ParticipantMatch(TrimmedLines(diagram)[k]).id : k \in ParticipantLines}

\* C17: for a sequence text with at least one participant line and no message
\* line analyzeDiagram returns a node count equal to the number of declared
\* participants, every node of role participant, and a connection count of 0.
C17_ParticipantsOnly ==
    (/\ apc = "done"
     /\ ~IsBlankText(diagram)
     /\ ares.type = <<"s","e","q","u","e","n","c","e","D","i","a","g","r","a","m">>
     /\ ParticipantLines # {}
     /\ MessageLines = {}) =>
        /\ ares.nodeCount = Cardinality(DeclaredParticipants)
        /\ Len(ares.structure.nodes) = Cardinality(DeclaredParticipants)
        /\ \A n \in 1..Len(ares.structure.nodes) : ares.structure.nodes[n].type = "participant"
        /\ ares.connectionCount = 0
        /\ ares.structure.connections = << >>

\* the body lines that consist of a direction token and nothing else
DirectionLines ==
    {k \in Body : TrimmedLines(diagram)[k] \in {<<"T","D">>, <<"T","B">>, <<"B","T">>, <<"R","L">>, <<"L","R">>}}

\* C18: for a flow text analyzeDiagram reports direction TD unless some body
\* line consists solely of one of the tokens TD, TB, BT, RL, LR, and then
\* the token of the last such line; a direction written on the declaration
\* line ('graph LR') does not change the reported direction.
C18_LastDirectionWins ==
    (apc = "done" /\ ~IsBlankText(diagram) /\ ares.type \in FlowTypes) =>
        ares.structure.direction =
            IF DirectionLines = {} THEN <<<<"T","D">>>>
            ELSE <<TrimmedLines(diagram)[SetMax(DirectionLines)]>>

\* a text declared as 'graph LR' with two direction lines of different tokens
\* was analyzed: the direction reported is that of the second
C18_Witness ==
    /\ apc = "done"
    /\ ~IsBlankText(diagram)
    /\ TrimmedLines(diagram)[1] = <<"g","r","a","p","h"," ","L","R">>
    /\ Cardinality(DirectionLines) = 2
    /\ TrimmedLines(diagram)[SetMin(DirectionLines)] # TrimmedLines(diagram)[SetMax(DirectionLines)]
    /\ ares.structure.direction = <<TrimmedLines(diagram)[SetMax(DirectionLines)]>>
    /\ ares.structure.direction # <<<<"L","R">>>>

\* C19: for every non-blank text, metadata.lineCount of the analysis is the
\* literal number of lines of the text, blank lines included.
C19_LiteralLineCount ==
    (apc = "done" /\ ~IsBlankText(diagram)) => ares.metadata.lineCount = Len(diagram)

\* the number of elements of the returned model
TotalElements == Len(ares.structure.nodes) + Len(ares.structure.connections)

\* C20: for every text the complexity analyzeDiagram returns is simple when
\* the returned node and connection lists hold at most 5 entries together,
\* moderate when they hold 6 to 15, and complex when they hold 16 or more.
C20_ComplexityTiers ==
    apc = "done" =>
        /\ ares.nodeCount = Len(ares.structure.nodes)
        /\ ares.connectionCount = Len(ares.structure.connections)
        /\ TotalElements <= 5 => ares.complexity = "simple"
        /\ TotalElements \in 6..15 => ares.complexity = "moderate"
        /\ TotalElements >= 16 => ares.complexity = "complex"

\* a text whose model holds exactly 16 elements was analyzed as complex
C20_Witness ==
    /\ apc = "done"
    /\ TotalElements = 16
    /\ ares.complexity = "complex"

(***************************************************************************)
(* debounceAsync                                                           *)
(***************************************************************************)
\* no timer is waiting to fire and no invocation of func is running
Quiescent ==
    \A k \in 1..Len(calls) : calls[k].timer # "armed" /\ calls[k].func # "running"

\* C21: every promise returned by a function wrapped with debounceAsync settles
\* once func has settled, either rejected with 'Debounced call cancelled' or with
\* the outcome of func for its arguments, also when a new call arrived while func
\* was running for the previous one: when no timer is waiting and no invocation
\* of func is running, no promise is pending.
C21_EveryPromiseSettles ==
    Quiescent => \A k \in 1..Len(calls) : calls[k].promise # "pending"

\* C22: a new call cancels every earlier call that has not settled: no call but
\* the most recent has a pending promise, func is invoked for a call only while
\* it is the most recent one (an earlier call's unfired timer never fires), and
\* func's outcome settles only the promise of the most recent call.
C22_NewCallCancelsEarlier ==
    \A k \in 1..Len(calls) :
        /\ k < Len(calls) => calls[k].promise # "pending"
        /\ calls[k].firedAt \in {0, k}
        /\ calls[k].settledAt \in {0, k}

(***************************************************************************)
(* The chat store and useChat                                              *)
(***************************************************************************)
\* C23: while a sendMessage request is waiting for the model's response the
\* chat store's isLoading is true; it is false again only when the request
\* has completed.
C23_LoadingWhileAwaiting == inflight # {} => isLoading

\* a step in which a request of sendMessage completes
RequestCompletes == inflight' # inflight /\ inflight' \subseteq inflight

\* C24: when a sendMessage whose request failed has finished, the chat store's
\* error field holds the failure message.
C24_ErrorKeptAfterFailure ==
    [][(RequestCompletes /\ lastChat'.error # "") => error' = lastChat'.error]_vars

\* C25: retryLastFailedMessage re-sends the last user message without
\* duplicating it: the call leaves the messages up to and including the last
\* user message and nothing after it, so that the list holds that message
\* once, to be followed by the assistant messages of the retry.
C25_RetryKeepsOneCopy ==
    [][(lastSend' # lastSend /\ lastSend'.kind = "retry")
          => messages' = SubSeq(messages, 1, LastUserIndex(messages))]_vars

\* C29: when the model call of a request fails, the end of sendMessage leaves
\* the content of currentDiagram and of the editor as they were, appends one
\* assistant apology and leaves isLoading false; sendMessage called with a
\* blank message, or without a usable API key, changes no store.
C29_FailureLeavesDiagram ==
    [][/\ (RequestCompletes /\ lastChat'.error # "") =>
              /\ currentDiagram' = currentDiagram
              /\ editorState'.content = editorState.content
              /\ messages' = Append(messages, Message("assistant", Apology, FALSE))
              /\ isLoading' = FALSE
       /\ (/\ lastSend' # lastSend
           /\ lastSend'.kind = "send"
           /\ IsBlank(lastSend'.message) \/ ~apiKey.hasKey \/ apiKey.isValid = "false") =>
              UNCHANGED <<currentDiagram, editorState, messages, isLoading, error,
                          currentInput, apiKey, inflight>>]_vars

\* a request failed, its apology is the last message, and a sendMessage with a
\* blank message was made afterwards
C29_Witness ==
    /\ lastChat # NoResult
    /\ lastChat.error # ""
    /\ messages # << >>
    /\ messages[Len(messages)] = Message("assistant", Apology, FALSE)
    /\ ~isLoading
    /\ lastSend # NoResult
    /\ lastSend.kind = "send"
    /\ IsBlank(lastSend.message)

(***************************************************************************)
(* The diagram store                                                       *)
(***************************************************************************)
\* C26: in every reachable state of the diagram store editorState.isValid is
\* false exactly when validationResult is non-null with isValid false.
C26_IsValidMirrorsResult ==
    (editorState.isValid = FALSE) <=>
        (validationResult # NoResult /\ ~validationResult.isValid)

\* C27: whenever a diagram is open the content of the editor is the content of
\* currentDiagram, and while currentDiagram is null (updateDiagramContent
\* included) the content of the editor does not change.
C27_EditorShowsOpenDiagram ==
    /\ currentDiagram # NoText => editorState.content = currentDiagram
    /\ [][/\ currentDiagram' # NoText => editorState'.content = currentDiagram'
          /\ (currentDiagram = NoText /\ currentDiagram' = NoText)
                => editorState'.content = editorState.content]_vars

\* a saved diagram other than the default one is open, the editor shows it and
\* the cursor has been moved
C27_Witness ==
    /\ currentDiagram # NoText
    /\ currentDiagram # DEFAULT_DIAGRAM
    /\ getDiagramById(storage, currentId) # NoResult
    /\ getDiagramById(storage, currentId).content = currentDiagram
    /\ editorState.content = currentDiagram
    /\ editorState.cursorPosition = 1

\* C28: after deleteDiagramFromStorage(id) succeeds no diagram with that id is
\* left in savedDiagrams or in storage; if the deleted diagram was the open
\* one, currentDiagram is a fresh diagram with another id and the default
\* content and the editor state is the initial one, otherwise currentDiagram
\* and editorState are as before; when the deletion fails savedDiagrams,
\* storage, currentDiagram and editorState are as before.
C28_DeleteFrame ==
    [][lastDelete' # lastDelete =>
          IF lastDelete'.success
          THEN /\ lastDelete'.id \notin IdsIn(savedDiagrams') \cup IdsIn(storage')
               /\ IF currentId = lastDelete'.id
                  THEN /\ currentId' \notin {0, lastDelete'.id}
                       /\ currentDiagram' = DEFAULT_DIAGRAM
                       /\ editorState' = createInitialEditorState
                  ELSE UNCHANGED <<currentId, currentDiagram, editorState>>
          ELSE UNCHANGED <<savedDiagrams, storage, currentId, currentDiagram,
                           editorState>>]_vars

\* the open diagram, which had been validated, has been deleted: a fresh
\* default diagram is open and the deleted id is in neither list
C28_Witness ==
    /\ lastDelete # NoResult
    /\ lastDelete.success
    /\ lastDelete.open
    /\ currentId \notin {0, lastDelete.id}
    /\ currentDiagram = DEFAULT_DIAGRAM
    /\ editorState = createInitialEditorState
    /\ lastDelete.id \notin IdsIn(savedDiagrams) \cup IdsIn(storage)
    /\ validationResult # NoResult
====
